---------------------------- MODULE Spec2Model ----------------------------
(***************************************************************************)
(* A model of AppliTrack's search / filter / sort core, of its stores and  *)
(* of its status automation.                                               *)
(*                                                                         *)
(*   - PerformanceService.createSearchIndex / searchWithIndex              *)
(*       (src/lib/performanceService.ts)                                   *)
(*   - searchJobs / filterJobs          (src/unnamed/part_001)             *)
(*   - filteredAndSortedJobs            (src/components/JobTracker.tsx)    *)
(*   - jobStorage, DocumentService      (src/lib/schemas.ts)               *)
(*   - StatusAutomationService.analyzeJobs, autoProgressStatus, rules      *)
(*       (src/lib/statusAutomationService.ts)                              *)
(*   - the tracker's add / update / delete / export / import handlers      *)
(*       (src/components/JobTracker.tsx, src/unnamed/part_001)             *)
(*   - createMemoizedFilter, createLazyLoader, createDebouncedSearch       *)
(*       (src/lib/performanceService.ts)                                   *)
(*   - ApplicationTemplateService       (src/unnamed/part_001)             *)
(*   - NotificationService              (src/lib/notificationService.ts)   *)
(*                                                                         *)
(* JavaScript strings are sequences of one-character strings, so that      *)
(* toLowerCase, trim, split, join, includes, substring and parseInt are    *)
(* computed character by character.  `undefined` text is the sequence      *)
(* Undefined, whose only element is not a character.  An optional boolean  *)
(* or object is a set with at most one element ({} is `undefined`).        *)
(***************************************************************************)
EXTENDS Integers, Sequences, FiniteSets, TLC

VARIABLES
    jobs,         \* the record list handed to the operation (JobApplication[])
    searchTerm,   \* the query string
    searchIndex,  \* Map<string, Set<number>> held by the caller
    filters,      \* the filter specification
    sort,         \* SortOptions {field, order}
    result,       \* what the last operation returned
    result2,      \* what filterJobs returned when applied to `result`
    op,           \* the last operation applied ("none" after construction)
    storage,      \* localStorage["job-applications"], parsed: the stored records
    documents,    \* DocumentService.documents, saved after every change
    clock,        \* the time, in ticks: one tick per storage operation
    call,         \* the last storage operation and its arguments
    statusRules,  \* StatusAutomationService.rules
    exportFile,   \* the file the last export downloaded (<<>>: none yet)
    memoCache,    \* the cache of a function made by createMemoizedFilter
    loader,       \* currentPage, hasMore, isLoading, allItems of a lazy loader
    inFlight,     \* the calls of loadFunction that have not settled
    timeoutId,    \* the pending timeout of a debounced search (<<>>: none)
    promises,     \* the promises the debounced search has returned
    templates,    \* ApplicationTemplateService.templates
    categories,   \* ApplicationTemplateService.categories
    notifications,\* NotificationService.notifications
    permission,   \* Notification.permission of the browser
    shown,        \* the browser notifications constructed so far
    created       \* the number of notifications created so far

\* The closures made by the PerformanceService
performance == <<memoCache, loader, inFlight, timeoutId, promises>>

\* The template service
templating == <<templates, categories>>

\* The notification service and the browser's notifications
notifying == <<notifications, permission, shown, created>>

\* The services that neither the rules nor the export touch
others == <<performance, templating, notifying>>

\* The state of the other services
services == <<statusRules, exportFile, others>>

\* The state of the two stores and of the other services
store == <<storage, documents, clock, call, services>>

vars == <<jobs, searchTerm, searchIndex, filters, sort, result, result2, op,
          store>>

---------------------------------------------------------------------------
(* Bounds of the model                                                     *)

MaxQueryLen == 3     \* characters in a query
MaxJobs == 2         \* records in a list handed to search or filter
MaxFilterFields == 2 \* fields set in a filter specification
MaxViewJobs == 3     \* records in the list the tracker shows

---------------------------------------------------------------------------
(* JavaScript text                                                         *)

Undefined == <<"undefined">>

\* Boolean(x) for a string or undefined: "" and undefined are falsy.
Truthy(s) == s # Undefined /\ s # <<>>

\* The lower-case letter of each upper-case letter
LowerOf ==
    ("A" :> "a") @@ ("B" :> "b") @@ ("C" :> "c") @@ ("D" :> "d") @@ ("E" :> "e") @@ ("F" :> "f")
    @@ ("G" :> "g") @@ ("H" :> "h") @@ ("I" :> "i") @@ ("J" :> "j") @@ ("K" :> "k") @@ ("L" :> "l")
    @@ ("M" :> "m") @@ ("N" :> "n") @@ ("O" :> "o") @@ ("P" :> "p") @@ ("Q" :> "q") @@ ("R" :> "r")
    @@ ("S" :> "s") @@ ("T" :> "t") @@ ("U" :> "u") @@ ("V" :> "v") @@ ("W" :> "w") @@ ("X" :> "x")
    @@ ("Y" :> "y") @@ ("Z" :> "z")

ToLowerChar(c) == IF c \in DOMAIN LowerOf THEN LowerOf[c] ELSE c

\* String.prototype.toLowerCase
ToLowerCase(s) == [i \in 1..Len(s) |-> ToLowerChar(s[i])]

\* What the regular expression class \s and trim() treat as white space.
IsSpace(c) == c \in {" ", "\t"}

\* Faulty variant of Trim: the string is tested as it is (if (!query) ...).
TrimNothing(s) == s

\* String.prototype.trim
Trim(s) ==
    LET keep == {i \in 1..Len(s) : ~IsSpace(s[i])}
    IN  IF keep = {} THEN <<>>
        ELSE SubSeq(s, CHOOSE i \in keep : \A j \in keep : i <= j,
                       CHOOSE i \in keep : \A j \in keep : i >= j)

\* String.prototype.split(/\s+/): the pieces between maximal runs of white
\* space; a leading or trailing run leaves an empty piece, "" gives [""].
RECURSIVE SplitWs(_)
SplitWs(s) ==
    LET ws == {i \in 1..Len(s) : IsSpace(s[i])}
    IN  IF ws = {} THEN <<s>>
        ELSE LET i == CHOOSE k \in ws : \A l \in ws : k <= l
                 rest == {k \in i..Len(s) : ~IsSpace(s[k])}
                 j == IF rest = {} THEN Len(s) + 1
                      ELSE CHOOSE k \in rest : \A l \in rest : k <= l
             IN  <<SubSeq(s, 1, i - 1)>> \o SplitWs(SubSeq(s, j, Len(s)))

\* String.prototype.split(" "): the pieces between single spaces.
RECURSIVE SplitSpace(_)
SplitSpace(s) ==
    LET sp == {i \in 1..Len(s) : s[i] = " "}
    IN  IF sp = {} THEN <<s>>
        ELSE LET i == CHOOSE k \in sp : \A l \in sp : k <= l
             IN  <<SubSeq(s, 1, i - 1)>> \o SplitSpace(SubSeq(s, i + 1, Len(s)))

\* Array.prototype.join(" ")
RECURSIVE JoinSpace(_)
JoinSpace(parts) ==
    IF Len(parts) = 0 THEN <<>>
    ELSE IF Len(parts) = 1 THEN parts[1]
    ELSE parts[1] \o <<" ">> \o JoinSpace(Tail(parts))

\* Faulty variant of Includes: the term is looked for at the start alone.
IncludesAtStart(text, term) ==
    Len(term) <= Len(text) /\ \A k \in 1..Len(term) : text[k] = term[k]

\* String.prototype.includes
Includes(text, term) ==
    \E i \in 0..(Len(text) - Len(term)) : \A k \in 1..Len(term) : text[i + k] = term[k]

\* Array.prototype.filter(Boolean) on an array of strings and undefined
FilterBoolean(parts) == SelectSeq(parts, Truthy)

\* Array.prototype.flat() on an array of arrays
RECURSIVE Flat(_)
Flat(arrays) == IF Len(arrays) = 0 THEN <<>> ELSE arrays[1] \o Flat(Tail(arrays))

---------------------------------------------------------------------------
(* The record model: the string literals of the JobApplication type        *)

Applied == <<"a", "p", "p", "l", "i", "e", "d">>
Shortlisted == <<"s", "h", "o", "r", "t", "l", "i", "s", "t", "e", "d">>
Interview == <<"i", "n", "t", "e", "r", "v", "i", "e", "w">>
Rejected == <<"r", "e", "j", "e", "c", "t", "e", "d">>
Offered == <<"o", "f", "f", "e", "r", "e", "d">>
FullTime == <<"f", "u", "l", "l", "-", "t", "i", "m", "e">>
PartTime == <<"p", "a", "r", "t", "-", "t", "i", "m", "e">>
Contract == <<"c", "o", "n", "t", "r", "a", "c", "t">>
Remote == <<"r", "e", "m", "o", "t", "e">>
OnSite == <<"o", "n", "-", "s", "i", "t", "e">>
Hybrid == <<"h", "y", "b", "r", "i", "d">>
Entry == <<"e", "n", "t", "r", "y">>
Senior == <<"s", "e", "n", "i", "o", "r">>
Low == <<"l", "o", "w">>
Medium == <<"m", "e", "d", "i", "u", "m">>
High == <<"h", "i", "g", "h">>
All == <<"a", "l", "l">>

\* A date string the form stores, or "" for `undefined`.
NoDate == ""

---------------------------------------------------------------------------
(* The stores and services after construction                              *)

\* createDefaultCategories(): the ids of the six categories
DefaultCategories ==
    <<[id |-> "tech"], [id |-> "business"], [id |-> "design"],
      [id |-> "marketing"], [id |-> "startup"], [id |-> "remote"]>>

\* createDefaultTemplates(): id, category and isDefault of the six templates
DefaultTemplates ==
    <<[id |-> "senior-frontend", category |-> "tech", isDefault |-> TRUE],
      [id |-> "fullstack-mid", category |-> "tech", isDefault |-> TRUE],
      [id |-> "product-manager", category |-> "business", isDefault |-> TRUE],
      [id |-> "ux-designer", category |-> "design", isDefault |-> TRUE],
      [id |-> "startup-engineer", category |-> "startup", isDefault |-> TRUE],
      [id |-> "remote-developer", category |-> "remote", isDefault |-> TRUE]>>

\* The rules initializeDefaultRules installs
DefaultRules ==
    <<[id |-> "applied-to-followup", name |-> "Applied -> Follow-up Needed",
       fromStatus |-> Applied, toStatus |-> Applied,
       condition |-> "time_elapsed", timeDelay |-> 7, isActive |-> TRUE],
      [id |-> "interview-to-followup", name |-> "Interview -> Follow-up",
       fromStatus |-> Interview, toStatus |-> Interview,
       condition |-> "interview_date_passed", timeDelay |-> 3,
       isActive |-> TRUE],
      [id |-> "shortlisted-stale", name |-> "Shortlisted -> Follow-up",
       fromStatus |-> Shortlisted, toStatus |-> Shortlisted,
       condition |-> "time_elapsed", timeDelay |-> 10, isActive |-> TRUE]>>

\* The services as their constructors leave them
ServicesInit ==
    /\ statusRules = DefaultRules
    /\ exportFile = <<>>
    /\ memoCache = <<>>
    /\ loader = [currentPage |-> 0, hasMore |-> TRUE, isLoading |-> FALSE,
                 allItems |-> <<>>]
    /\ inFlight = {}
    /\ timeoutId = <<>>
    /\ promises = <<>>
    /\ templates = DefaultTemplates
    /\ categories = DefaultCategories
    /\ notifications = <<>>
    /\ permission = "default"
    /\ shown = <<>>
    /\ created = 0

\* Nothing stored, no document, no storage operation yet
StoreInit ==
    /\ storage = <<>>
    /\ documents = <<>>
    /\ clock = 0
    /\ call = [name |-> "none"]
    /\ ServicesInit

---------------------------------------------------------------------------
(* PerformanceService.createSearchIndex                                    *)

\* new Map()
EmptyMap == [k \in {} |-> {}]

\* The text indexed for one record.
IndexText(job) ==
    ToLowerCase(JoinSpace(FilterBoolean(
        <<job.company, job.role, job.workLocation, job.category, job.notes,
          job.status, job.experienceLevel, job.jobType, job.workMode>>)))

\* searchIndex.get(term) || new Set()
MapGet(index, term) == IF term \in DOMAIN index THEN index[term] ELSE {}

\* Faulty variant of IndexWord: a key is set to a fresh set holding idx alone.
IndexWordOverwriting(index, word, idx) ==
    IF Len(word) > 0
    THEN LET keys == {word} \cup {SubSeq(word, 1, i) : i \in 1..Len(word)}
         IN  [k \in keys |-> {idx}] @@ index
    ELSE index

\* The body of words.forEach, for a word that is not empty: the word, then
\* word.substring(0, i) for i = 1 .. word.length, each created with an empty
\* set when the index lacks it, each given idx.
IndexWord(index, word, idx) ==
    IF Len(word) > 0
    THEN LET keys == {word} \cup {SubSeq(word, 1, i) : i \in 1..Len(word)}
         IN  [k \in keys |-> MapGet(index, k) \cup {idx}] @@ index
    ELSE index

RECURSIVE IndexWords(_, _, _)
IndexWords(index, words, idx) ==
    IF Len(words) = 0 THEN index
    ELSE IndexWords(IndexWord(index, words[1], idx), Tail(words), idx)

\* jobs.forEach((job, idx) => ...), from position n (1-based) on
RECURSIVE IndexJobs(_, _, _)
IndexJobs(index, js, n) ==
    IF n > Len(js) THEN index
    ELSE IndexJobs(IndexWords(index, SplitWs(IndexText(js[n])), n - 1), js, n + 1)

createSearchIndex(js) == IndexJobs(EmptyMap, js, 1)

---------------------------------------------------------------------------
(* PerformanceService.searchWithIndex                                      *)

\* terms.forEach: resultIndexes is null before the first term
RECURSIVE IntersectTerms(_, _, _)
IntersectTerms(acc, terms, index) ==
    IF Len(terms) = 0 THEN acc
    ELSE LET termIndexes == MapGet(index, terms[1])
             next == IF acc.isNull THEN termIndexes
                     ELSE {idx \in acc.set : idx \in termIndexes}
         IN  IntersectTerms([isNull |-> FALSE, set |-> next], Tail(terms), index)

\* [...set]: a Set iterates in insertion order, and every posting set is
\* filled by jobs.forEach in ascending position.
RECURSIVE Spread(_)
Spread(set) ==
    IF set = {} THEN <<>>
    ELSE LET m == CHOOSE x \in set : \A y \in set : x <= y
         IN  <<m>> \o Spread(set \ {m})

\* The terms of the query: query.toLowerCase().split(/\s+/)
IndexTerms(query) == SplitWs(ToLowerCase(query))

searchWithIndex(query, js, index) ==
    IF Trim(query) = <<>> THEN js
    ELSE LET folded == IntersectTerms([isNull |-> TRUE, set |-> {}],
                                      IndexTerms(query), index)
             order == IF folded.isNull THEN <<>> ELSE Spread(folded.set)
         IN  [k \in 1..Len(order) |-> js[order[k] + 1]]

---------------------------------------------------------------------------
(* searchJobs: the linear search of the tracker                            *)

ContactTexts(contact) == FilterBoolean(<<contact.name, contact.title, contact.email>>)

\* Faulty variant of SearchableText: contacts and documents are left out.
SearchableTextOfFieldsOnly(job) ==
    ToLowerCase(JoinSpace(FilterBoolean(
        <<job.company, job.role, job.workLocation, job.category, job.notes,
          job.status, job.jobType, job.workMode, job.experienceLevel,
          job.salaryRange.currency>>)))

\* The text searched for one record; job.contacts and job.documents are
\* arrays ([] when the record has none).
SearchableText(job) ==
    ToLowerCase(JoinSpace(FilterBoolean(
        <<job.company, job.role, job.workLocation, job.category, job.notes,
          job.status, job.jobType, job.workMode, job.experienceLevel,
          job.salaryRange.currency>>
        \o Flat([i \in 1..Len(job.contacts) |-> ContactTexts(job.contacts[i])])
        \o [i \in 1..Len(job.documents) |-> job.documents[i].name])))

\* searchTerm.toLowerCase().split(" ").filter((term) => term.length > 0)
LinearTerms(term) == SelectSeq(SplitSpace(ToLowerCase(term)), LAMBDA t : Len(t) > 0)

searchJobs(js, term) ==
    IF Trim(term) = <<>> THEN js
    ELSE LET terms == LinearTerms(term)
         IN  SelectSeq(js, LAMBDA job :
                 \A i \in 1..Len(terms) : Includes(SearchableText(job), terms[i]))

---------------------------------------------------------------------------
(* JavaScript numbers and dates                                            *)

\* A number: NaN, or an integer
NaN == [nan |-> TRUE, v |-> 0]
Num(n) == [nan |-> FALSE, v |-> n]

\* a < b and a > b: false when either side is NaN
JsLess(a, b) == ~a.nan /\ ~b.nan /\ a.v < b.v
JsGreater(a, b) == ~a.nan /\ ~b.nan /\ a.v > b.v

Digits == <<"0", "1", "2", "3", "4", "5", "6", "7", "8", "9">>
IsDigit(c) == \E d \in 1..10 : Digits[d] = c
DigitValue(c) == (CHOOSE d \in 1..10 : Digits[d] = c) - 1

\* The digits at the head of s, read in base ten
RECURSIVE ReadDigits(_, _)
ReadDigits(s, acc) ==
    IF Len(s) = 0 \/ ~IsDigit(s[1]) THEN acc
    ELSE ReadDigits(Tail(s), 10 * acc + DigitValue(s[1]))

\* parseInt(s): leading white space is skipped, a sign is read, then the
\* digits up to the first other character; NaN when there is no digit.
ParseInt(s) ==
    LET body == {i \in 1..Len(s) : ~IsSpace(s[i])}
        from == IF body = {} THEN Len(s) + 1
                ELSE CHOOSE i \in body : \A j \in body : i <= j
        t == SubSeq(s, from, Len(s))
        signed == Len(t) > 0 /\ t[1] \in {"-", "+"}
        u == IF signed THEN Tail(t) ELSE t
    IN  IF Len(u) = 0 \/ ~IsDigit(u[1]) THEN NaN
        ELSE IF signed /\ t[1] = "-" THEN Num(0 - ReadDigits(u, 0))
        ELSE Num(ReadDigits(u, 0))

\* new Date(s).getTime() for the "YYYY-MM-DD" strings of a date input, in
\* days (every such time is a UTC midnight, a whole number of days of
\* 86,400,000 ms); any other string is an invalid date, whose time is NaN.
DateTable ==
    [d \in {"2024-01-01", "2024-01-05", "2024-01-10", "2024-01-20", "2024-02-01"} |->
        CASE d = "2024-01-01" -> 19723
          [] d = "2024-01-05" -> 19727
          [] d = "2024-01-10" -> 19732
          [] d = "2024-01-20" -> 19742
          [] d = "2024-02-01" -> 19754]

GetTime(s) == IF s \in DOMAIN DateTable THEN Num(DateTable[s]) ELSE NaN

---------------------------------------------------------------------------
(* filterJobs                                                              *)

\* filters.x && filters.x !== "all" && job.x !== filters.x
EnumExcludes(value, wanted) == Truthy(wanted) /\ wanted # All /\ value # wanted

\* Faulty variant of StatusExcludes: the sentinel "all" is compared like a status.
StatusExcludesAll(job, f) == Truthy(f.status) /\ job.status # f.status

StatusExcludes(job, f) == EnumExcludes(job.status, f.status)

\* Faulty variant of WorkModeExcludes: the test is missing.
WorkModeExcludesNothing(job, f) == FALSE

WorkModeExcludes(job, f) == EnumExcludes(job.workMode, f.workMode)

\* filters.location && !job.workLocation.toLowerCase().includes(...)
LocationExcludes(job, f) ==
    Truthy(f.location)
        /\ ~Includes(ToLowerCase(job.workLocation), ToLowerCase(f.location))

\* The default of a record's salary maximum
SalaryMaxDefault == 999999

\* if (filters.salaryRange) { ... }
SalaryExcludes(job, f) ==
    /\ f.salaryRange # {}
    /\ LET range == CHOOSE r \in f.salaryRange : TRUE
           jobMinSalary == IF Truthy(job.salaryRange.min)
                           THEN ParseInt(job.salaryRange.min) ELSE Num(0)
           jobMaxSalary == IF Truthy(job.salaryRange.max)
                           THEN ParseInt(job.salaryRange.max)
                           ELSE Num(SalaryMaxDefault)
       IN  JsLess(jobMaxSalary, Num(range.min))
               \/ JsGreater(jobMinSalary, Num(range.max))

\* if (filters.dateRange) { ... }
DateExcludes(job, f) ==
    /\ f.dateRange # {}
    /\ LET range == CHOOSE r \in f.dateRange : TRUE
           jobDate == GetTime(job.appliedDate)
       IN  JsLess(jobDate, GetTime(range.start))
               \/ JsGreater(jobDate, GetTime(range.end))

\* Faulty variant of HasInterview: the interview link is not looked at.
HasInterviewWithoutLink(job) ==
    job.status = Interview \/ job.interviewDate # NoDate

\* job.status === "interview" || !!job.interviewDate || !!job.interviewLink
HasInterview(job) ==
    job.status = Interview \/ job.interviewDate # NoDate \/ Truthy(job.interviewLink)

\* if (filters.hasInterview !== undefined) { ... }
InterviewExcludes(job, f) ==
    f.hasInterview # {} /\ f.hasInterview # {HasInterview(job)}

\* filters.archived !== undefined && job.archived !== filters.archived
ArchivedExcludes(job, f) == f.archived # {} /\ job.archived # f.archived

\* The callback of jobs.filter: the first test that excludes returns false.
JobPasses(job, f) ==
    IF StatusExcludes(job, f) THEN FALSE
    ELSE IF EnumExcludes(job.jobType, f.jobType) THEN FALSE
    ELSE IF WorkModeExcludes(job, f) THEN FALSE
    ELSE IF EnumExcludes(job.experienceLevel, f.experienceLevel) THEN FALSE
    ELSE IF EnumExcludes(job.priority, f.priority) THEN FALSE
    ELSE IF EnumExcludes(job.category, f.category) THEN FALSE
    ELSE IF LocationExcludes(job, f) THEN FALSE
    ELSE IF SalaryExcludes(job, f) THEN FALSE
    ELSE IF DateExcludes(job, f) THEN FALSE
    ELSE IF InterviewExcludes(job, f) THEN FALSE
    ELSE IF ArchivedExcludes(job, f) THEN FALSE
    ELSE TRUE

\* Faulty variant of filterJobs: the records that fail are spliced out of the array
\* while it is walked, so the record after a removed one is not looked at.
RECURSIVE SpliceWalk(_, _, _)
SpliceWalk(js, f, i) ==
    IF i > Len(js) THEN js
    ELSE IF JobPasses(js[i], f) THEN SpliceWalk(js, f, i + 1)
    ELSE SpliceWalk(SubSeq(js, 1, i - 1) \o SubSeq(js, i + 1, Len(js)), f, i + 1)

filterJobsSplicing(js, f) == SpliceWalk(js, f, 1)

\* jobs.filter((job) => ...): a new array, in the order of jobs
filterJobs(js, f) == SelectSeq(js, LAMBDA job : JobPasses(job, f))

---------------------------------------------------------------------------
(* Filter and sort specifications (FilterOptions, SortOptions)             *)

\* useState<FilterOptions>({}): every field undefined
EmptyFilter ==
    [status |-> Undefined, jobType |-> Undefined, workMode |-> Undefined,
     experienceLevel |-> Undefined, priority |-> Undefined,
     category |-> Undefined, location |-> Undefined, salaryRange |-> {},
     dateRange |-> {}, hasInterview |-> {}, archived |-> {}]

\* useState<SortOptions>({field: "appliedDate", order: "desc"})
DefaultSort == [field |-> "appliedDate", order |-> "desc"]

---------------------------------------------------------------------------
(* Sample records                                                          *)

\* The record of the specification's scenario: Acme, Engineer, NYC, applied.
JobA ==
    [id |-> "1",
     company |-> <<"A", "c", "m", "e">>,
     role |-> <<"E", "n", "g", "i", "n", "e", "e", "r">>,
     salaryRange |-> [min |-> Undefined, max |-> Undefined, currency |-> Undefined],
     workLocation |-> <<"N", "Y", "C">>,
     jobType |-> FullTime, workMode |-> Remote, status |-> Applied,
     interviewLink |-> Undefined, appliedDate |-> "2024-01-01",
     notes |-> Undefined, category |-> Undefined, experienceLevel |-> Undefined,
     interviewDate |-> NoDate, priority |-> Undefined, archived |-> {FALSE},
     contacts |-> <<>>, documents |-> <<>>]

\* Text in two words, doubled and trailing white space in the notes, a
\* contact and a document.
JobB ==
    [id |-> "2",
     company |-> <<"G", "e", "n", "e", " ", "N", "g">>,
     role |-> <<"M", "a", "n", "a", "g", "e", "r">>,
     salaryRange |-> [min |-> <<"6", "0", "0", "0", "0">>,
                      max |-> <<"9", "0", "0", "0", "0">>,
                      currency |-> <<"U", "S", "D">>],
     workLocation |-> <<"R", "e", "m", "o", "t", "e">>,
     jobType |-> Contract, workMode |-> Hybrid, status |-> Interview,
     interviewLink |-> Undefined, appliedDate |-> "2024-01-05",
     notes |-> <<"s", "e", "e", " ", " ", "e", "n", "g", "\t", "n", "o", "w", " ">>,
     category |-> <<"E", "n", "g">>, experienceLevel |-> Senior,
     interviewDate |-> "2024-01-20", priority |-> High, archived |-> {FALSE},
     contacts |-> <<[name |-> <<"E", "n", "n">>, title |-> Undefined,
                     email |-> <<"n", "@", "g", "e">>]>>,
     documents |-> <<[name |-> <<"e", "g", "g">>]>>]

\* No letter g but in the salary currency.
JobC ==
    [id |-> "3",
     company |-> <<"Z", "i", "p">>,
     role |-> <<"Q", "A">>,
     salaryRange |-> [min |-> Undefined, max |-> Undefined,
                      currency |-> <<"G", "B", "P">>],
     workLocation |-> <<"L", "A">>,
     jobType |-> FullTime, workMode |-> Hybrid, status |-> Applied,
     interviewLink |-> Undefined, appliedDate |-> "2024-02-01",
     notes |-> Undefined, category |-> Undefined, experienceLevel |-> Undefined,
     interviewDate |-> NoDate, priority |-> Medium, archived |-> {FALSE},
     contacts |-> <<>>, documents |-> <<>>]

SearchPool == {JobA, JobB, JobC}

\* Shortlisted and archived, an interview link, a salary minimum alone.
JobD ==
    [id |-> "4",
     company |-> <<"D", "e", "l", "t", "a">>,
     role |-> <<"D", "e", "v">>,
     salaryRange |-> [min |-> <<"1", "2", "0", "0", "0", "0">>, max |-> <<>>,
                      currency |-> <<"U", "S", "D">>],
     workLocation |-> <<"N", "e", "w", " ", "Y", "o", "r", "k">>,
     jobType |-> PartTime, workMode |-> OnSite, status |-> Shortlisted,
     interviewLink |-> <<"h", "t", "t", "p", "s", ":", "/", "/", "m">>,
     appliedDate |-> "2024-01-10",
     notes |-> Undefined, category |-> Undefined, experienceLevel |-> Undefined,
     interviewDate |-> NoDate, priority |-> Low, archived |-> {TRUE},
     contacts |-> <<>>, documents |-> <<>>]

\* Applied with an interview date, a salary maximum alone.
JobE ==
    [id |-> "5",
     company |-> <<"E", "c", "h", "o">>,
     role |-> <<"O", "p", "s">>,
     salaryRange |-> [min |-> <<>>, max |-> <<"5", "0", "0", "0", "0">>,
                      currency |-> <<"U", "S", "D">>],
     workLocation |-> <<"n", "y", "c">>,
     jobType |-> FullTime, workMode |-> Remote, status |-> Applied,
     interviewLink |-> Undefined, appliedDate |-> "2024-01-05",
     notes |-> Undefined, category |-> <<"E", "n", "g">>,
     experienceLevel |-> Entry,
     interviewDate |-> "2024-01-20", priority |-> Medium, archived |-> {FALSE},
     contacts |-> <<>>, documents |-> <<>>]

\* At interview without a date or a link, a salary of seven digits.
JobF ==
    [id |-> "6",
     company |-> <<"F", "o", "x">>,
     role |-> <<"C", "T", "O">>,
     salaryRange |-> [min |-> <<"1", "0", "0", "0", "0", "0", "0">>,
                      max |-> <<"1", "2", "0", "0", "0", "0", "0">>,
                      currency |-> <<"U", "S", "D">>],
     workLocation |-> <<"L", "A">>,
     jobType |-> Contract, workMode |-> Remote, status |-> Interview,
     interviewLink |-> Undefined, appliedDate |-> "2024-02-01",
     notes |-> Undefined, category |-> Undefined, experienceLevel |-> Senior,
     interviewDate |-> NoDate, priority |-> High, archived |-> {FALSE},
     contacts |-> <<>>, documents |-> <<>>]

FilterPool == {JobA, JobB, JobC, JobD, JobE, JobF}

\* The scenario of five records of mixed status, two of them at interview
FiveMixed == <<JobA, JobB, JobC, JobD, JobF>>

\* Every list of at most n elements of S
ListsUpTo(S, n) == UNION {[1..k -> S] : k \in 0..n}

\* Every list of at most n distinct records of S (ids are unique in a list)
RecordLists(S, n) ==
    {l \in ListsUpTo(S, n) : \A i, j \in 1..Len(l) : l[i] = l[j] => i = j}

\* The characters a query is typed from
QueryChars == {"e", "n", "g", "E", " ", "\t"}

Queries == ListsUpTo(QueryChars, MaxQueryLen)

---------------------------------------------------------------------------
(* Search: a record list, then an index build or a search for a query      *)

SearchInit ==
    /\ jobs \in RecordLists(SearchPool, MaxJobs)
    /\ searchTerm = <<>>
    /\ searchIndex = EmptyMap
    /\ filters = EmptyFilter
    /\ sort = DefaultSort
    /\ result = <<>>
    /\ result2 = <<>>
    /\ op = "none"
    /\ StoreInit

CreateSearchIndex ==
    /\ op = "none"
    /\ searchIndex' = createSearchIndex(jobs)
    /\ op' = "createSearchIndex"
    /\ UNCHANGED <<jobs, searchTerm, filters, sort, result, result2,
                   store>>

\* searchWithIndex(query, jobs, searchIndex), the index built or not
SearchWithIndex ==
    /\ op \in {"none", "createSearchIndex"}
    /\ \E query \in Queries :
          /\ searchTerm' = query
          /\ result' = searchWithIndex(query, jobs, searchIndex)
    /\ op' = "searchWithIndex"
    /\ UNCHANGED <<jobs, searchIndex, filters, sort, result2,
                   store>>

\* searchJobs(jobs, searchTerm)
SearchJobs ==
    /\ op = "none"
    /\ \E query \in Queries :
          /\ searchTerm' = query
          /\ result' = searchJobs(jobs, query)
    /\ op' = "searchJobs"
    /\ UNCHANGED <<jobs, searchIndex, filters, sort, result2,
                   store>>

SearchNext == CreateSearchIndex \/ SearchWithIndex \/ SearchJobs

SpecSearch == SearchInit /\ [][SearchNext]_vars

---------------------------------------------------------------------------
(* Filter: a record list, then filterJobs with a filter specification, and  *)
(* filterJobs again on what it returned                                     *)

\* Every enum field and the category at the sentinel "all"
AllFilter ==
    [EmptyFilter EXCEPT !.status = All, !.jobType = All, !.workMode = All,
                        !.experienceLevel = All, !.priority = All,
                        !.category = All]

\* F, and every specification of F with one more field set
SetOneMore(F) ==
    F \cup {[f EXCEPT !.status = v] :
                f \in {g \in F : g.status = Undefined}, v \in {All, Interview, Applied}}
      \cup {[f EXCEPT !.jobType = v] :
                f \in {g \in F : g.jobType = Undefined}, v \in {Contract}}
      \cup {[f EXCEPT !.workMode = v] :
                f \in {g \in F : g.workMode = Undefined}, v \in {Remote}}
      \cup {[f EXCEPT !.experienceLevel = v] :
                f \in {g \in F : g.experienceLevel = Undefined}, v \in {Senior}}
      \cup {[f EXCEPT !.priority = v] :
                f \in {g \in F : g.priority = Undefined}, v \in {All, High}}
      \cup {[f EXCEPT !.category = v] :
                f \in {g \in F : g.category = Undefined}, v \in {<<"E", "n", "g">>}}
      \cup {[f EXCEPT !.location = v] :
                f \in {g \in F : g.location = Undefined}, v \in {<<"N", "y">>}}
      \cup {[f EXCEPT !.salaryRange = {v}] :
                f \in {g \in F : g.salaryRange = {}},
                v \in {[min |-> 0, max |-> 300000], [min |-> 70000, max |-> 80000],
                       [min |-> 100000, max |-> 300000],
                       [min |-> 1000000, max |-> 2000000]}}
      \cup {[f EXCEPT !.dateRange = {v}] :
                f \in {g \in F : g.dateRange = {}},
                v \in {[start |-> "2024-01-05", end |-> "2024-01-20"]}}
      \cup {[f EXCEPT !.hasInterview = {v}] :
                f \in {g \in F : g.hasInterview = {}}, v \in BOOLEAN}
      \cup {[f EXCEPT !.archived = {v}] :
                f \in {g \in F : g.archived = {}}, v \in BOOLEAN}

\* The specifications with at most n fields set
RECURSIVE FiltersUpTo(_)
FiltersUpTo(n) == IF n = 0 THEN {EmptyFilter} ELSE SetOneMore(FiltersUpTo(n - 1))

FilterSpecs == FiltersUpTo(MaxFilterFields) \cup {AllFilter}

FilterInit ==
    /\ jobs \in RecordLists(FilterPool, MaxJobs) \cup {FiveMixed}
    /\ searchTerm = <<>>
    /\ searchIndex = EmptyMap
    /\ filters = EmptyFilter
    /\ sort = DefaultSort
    /\ result = <<>>
    /\ result2 = <<>>
    /\ op = "none"
    /\ StoreInit

\* filterJobs(jobs, f)
FilterJobs ==
    /\ op = "none"
    /\ \E f \in FilterSpecs :
          /\ filters' = f
          /\ result' = filterJobs(jobs, f)
    /\ op' = "filterJobs"
    /\ UNCHANGED <<jobs, searchTerm, searchIndex, sort, result2,
                   store>>

\* filterJobs(result, filters): the same specification on the result
FilterAgain ==
    /\ op = "filterJobs"
    /\ result2' = filterJobs(result, filters)
    /\ op' = "filterAgain"
    /\ UNCHANGED <<jobs, searchTerm, searchIndex, filters, sort, result,
                   store>>

FilterNext == FilterJobs \/ FilterAgain

SpecFilter == FilterInit /\ [][FilterNext]_vars

---------------------------------------------------------------------------
(* JobTracker: the list shown is searchJobs, then filterJobs, then          *)
(* Array.prototype.sort with the comparator of the sort specification       *)

\* a - b
JsMinus(a, b) == IF a.nan \/ b.nan THEN NaN ELSE Num(a.v - b.v)

\* -a
JsNegate(a) == IF a.nan THEN NaN ELSE Num(0 - a.v)

\* The rank of the characters under the collation: space, digits, letters
CollationRank ==
    (" " :> 1) @@ ("0" :> 2) @@ ("1" :> 3) @@ ("2" :> 4) @@ ("3" :> 5) @@ ("4" :> 6)
    @@ ("5" :> 7) @@ ("6" :> 8) @@ ("7" :> 9) @@ ("8" :> 10) @@ ("9" :> 11) @@ ("-" :> 12)
    @@ ("a" :> 13) @@ ("b" :> 14) @@ ("c" :> 15) @@ ("d" :> 16) @@ ("e" :> 17) @@ ("f" :> 18)
    @@ ("g" :> 19) @@ ("h" :> 20) @@ ("i" :> 21) @@ ("j" :> 22) @@ ("k" :> 23) @@ ("l" :> 24)
    @@ ("m" :> 25) @@ ("n" :> 26) @@ ("o" :> 27) @@ ("p" :> 28) @@ ("q" :> 29) @@ ("r" :> 30)
    @@ ("s" :> 31) @@ ("t" :> 32) @@ ("u" :> 33) @@ ("v" :> 34) @@ ("w" :> 35) @@ ("x" :> 36)
    @@ ("y" :> 37) @@ ("z" :> 38)

\* The rank of a lower-case character (0: not ranked)
RankOf(l) == IF l \in DOMAIN CollationRank THEN CollationRank[l] ELSE 0

\* The rank of a character with its case ignored
CollationWeight(c) == RankOf(ToLowerChar(c))

\* The ranks of the characters of a string
Weights(t) == [i \in 1..Len(t) |-> CollationWeight(t[i])]

\* The first difference of two lists of ranks, or else the shorter first
CompareWeights(wa, wb) ==
    LET n == IF Len(wa) < Len(wb) THEN Len(wa) ELSE Len(wb)
        differ == {i \in 1..n : wa[i] # wb[i]}
    IN  IF differ = {}
        THEN IF Len(wa) < Len(wb) THEN -1 ELSE IF Len(wa) > Len(wb) THEN 1 ELSE 0
        ELSE LET i == CHOOSE k \in differ : \A m \in differ : k <= m
             IN  IF wa[i] < wb[i] THEN -1 ELSE 1

\* The first difference of a and b with the case of the letters ignored
ComparePrimary(a, b) == CompareWeights(Weights(a), Weights(b))

\* a and b differ in case only: the lower-case letter comes first
CompareCase(a, b) ==
    LET differ == {i \in 1..Len(a) : a[i] # b[i]}
    IN  IF differ = {} THEN 0
        ELSE LET i == CHOOSE k \in differ : \A m \in differ : k <= m
             IN  IF ToLowerChar(a[i]) = a[i] THEN -1 ELSE 1

\* The primary difference decides; the case decides between equal letters
FirstDifference(primary, case) == IF primary # 0 THEN primary ELSE case

\* a.localeCompare(b)
LocaleCompare(a, b) == FirstDifference(ComparePrimary(a, b), CompareCase(a, b))

\* Faulty variant of PriorityOrder: every priority has the rank 0.
PriorityOrderUnranked(priority) == 0

\* priority ? priorityOrder[priority] || 0 : 0
PriorityOrder(priority) ==
    IF ~Truthy(priority) THEN 0
    ELSE IF priority = High THEN 3
    ELSE IF priority = Medium THEN 2
    ELSE IF priority = Low THEN 1
    ELSE 0

\* interviewDate ? new Date(interviewDate).getTime() : 0
InterviewTime(job) ==
    IF job.interviewDate # NoDate THEN GetTime(job.interviewDate) ELSE Num(0)

\* The switch on sort.field
Comparison(a, b, s) ==
    CASE s.field = "appliedDate" ->
            JsMinus(GetTime(a.appliedDate), GetTime(b.appliedDate))
      [] s.field \in {"company", "role", "status"} ->
            Num(LocaleCompare(a[s.field], b[s.field]))
      [] s.field = "priority" ->
            Num(PriorityOrder(a.priority) - PriorityOrder(b.priority))
      [] s.field = "interviewDate" -> JsMinus(InterviewTime(a), InterviewTime(b))
      [] OTHER -> Num(0)

\* Faulty variant of Compare: the order of the sort specification is not looked at.
CompareAscending(a, b, s) == Comparison(a, b, s)

\* sort.order === "desc" ? -comparison : comparison
Oriented(comparison, s) ==
    IF s.order = "desc" THEN JsNegate(comparison) ELSE comparison

\* The comparator
Compare(a, b, s) == Oriented(Comparison(a, b, s), s)

\* What Array.prototype.sort makes of the comparator's value: NaN is +0
SignOf(v) == IF v.nan THEN 0 ELSE IF v.v < 0 THEN -1 ELSE IF v.v > 0 THEN 1 ELSE 0

SortSign(a, b, s) == SignOf(Compare(a, b, s))

\* The signs sg[i][j] are those of a consistent comparator
ConsistentSigns(sg, n) ==
    \A i, j, k \in 1..n :
        /\ sg[i][i] = 0
        /\ sg[i][j] = 0 - sg[j][i]
        /\ (sg[i][j] = 0 /\ sg[j][k] = 0) => sg[i][k] = 0
        /\ (sg[i][j] < 0 /\ sg[j][k] < 0) => sg[i][k] < 0

\* The comparator is a consistent comparator for the elements of the list
ConsistentComparator(l, s) ==
    ConsistentSigns([i \in 1..Len(l) |-> [j \in 1..Len(l) |-> SortSign(l[i], l[j], s)]],
                    Len(l))

\* l[j] comes before l[i] in a stable sort: the comparator puts it before,
\* or ties and it comes earlier in l
Before(sign, j, i) == sign < 0 \/ (sign = 0 /\ j < i)

\* The place of l[i] after a stable sort
Place(l, i, s) ==
    1 + Cardinality({j \in 1..Len(l) : Before(SortSign(l[j], l[i], s), j, i)})

\* The stable sort of the list under the comparator
StableSort(l, s) ==
    [p \in 1..Len(l) |-> l[CHOOSE i \in 1..Len(l) : Place(l, i, s) = p]]

\* Every order of the elements of the list
Orders(l) ==
    {[i \in 1..Len(l) |-> l[p[i]]] :
        p \in {q \in [1..Len(l) -> 1..Len(l)] :
                  \A i, j \in 1..Len(l) : q[i] = q[j] => i = j}}

\* Some comparison of two elements of the list is NaN
SomeNaN(l, s) == \E i, j \in 1..Len(l) : Compare(l[i], l[j], s).nan

\* array.sort(comparator): stable under a consistent comparator, an order
\* the implementation chooses under any other.  The comparator is a
\* difference of numbers or a collation order, and so consistent, unless a
\* date that does not parse makes a comparison NaN.
ArraySort(l, s) ==
    IF ~SomeNaN(l, s) \/ ConsistentComparator(l, s)
    THEN {StableSort(l, s)}
    ELSE Orders(l)

\* The lists filteredAndSortedJobs may hold for the state of the tracker
filteredAndSortedJobs(js, term, f, s) ==
    LET searched == IF Truthy(term) THEN searchJobs(js, term) ELSE js
        filtered == filterJobs(searched, f)
    IN  ArraySort(filtered, s)

SortFields == {"appliedDate", "company", "role", "status", "priority", "interviewDate"}

SortOrders == {"asc", "desc"}

\* The records the tracker holds: three applied on three days, one more
\* applied on the day of another.
ViewPool == {JobA, JobB, JobD, JobE}

\* What is typed in the search box
ViewQueries == {<<>>, <<"e">>}

\* The values of the status select the model picks from
StatusValues == {All, Applied}

\* useState: no search term, no filter, applied date descending
ViewInit ==
    /\ jobs \in RecordLists(ViewPool, MaxViewJobs)
    /\ searchTerm = <<>>
    /\ searchIndex = EmptyMap
    /\ filters = EmptyFilter
    /\ sort = DefaultSort
    /\ result \in filteredAndSortedJobs(jobs, <<>>, EmptyFilter, DefaultSort)
    /\ result2 = <<>>
    /\ op = "none"
    /\ StoreInit

\* onSearchChange(e.target.value)
OnSearchChange ==
    /\ \E term \in ViewQueries :
          /\ term # searchTerm
          /\ searchTerm' = term
          /\ result' \in filteredAndSortedJobs(jobs, term, filters, sort)
    /\ op' = "onSearchChange"
    /\ UNCHANGED <<jobs, searchIndex, filters, sort, result2,
                   store>>

\* handleFilterChange("status", value): "all" is stored as undefined
HandleFilterChange ==
    /\ \E value \in StatusValues :
          LET f == [filters EXCEPT !.status = IF value = All THEN Undefined ELSE value]
          IN  /\ f # filters
              /\ filters' = f
              /\ result' \in filteredAndSortedJobs(jobs, searchTerm, f, sort)
    /\ op' = "handleFilterChange"
    /\ UNCHANGED <<jobs, searchTerm, searchIndex, sort, result2,
                   store>>

\* handleClearFilters: setFilters({}); setSearchTerm("")
HandleClearFilters ==
    /\ filters # EmptyFilter \/ searchTerm # <<>>
    /\ filters' = EmptyFilter
    /\ searchTerm' = <<>>
    /\ result' \in filteredAndSortedJobs(jobs, <<>>, EmptyFilter, sort)
    /\ op' = "handleClearFilters"
    /\ UNCHANGED <<jobs, searchIndex, sort, result2,
                   store>>

\* onSortChange({...sort, field: value})
OnSortFieldChange ==
    /\ \E field \in SortFields :
          /\ field # sort.field
          /\ sort' = [sort EXCEPT !.field = field]
          /\ result' \in filteredAndSortedJobs(jobs, searchTerm, filters, sort')
    /\ op' = "onSortFieldChange"
    /\ UNCHANGED <<jobs, searchTerm, searchIndex, filters, result2,
                   store>>

\* onSortChange({...sort, order: value})
OnSortOrderChange ==
    /\ \E order \in SortOrders :
          /\ order # sort.order
          /\ sort' = [sort EXCEPT !.order = order]
          /\ result' \in filteredAndSortedJobs(jobs, searchTerm, filters, sort')
    /\ op' = "onSortOrderChange"
    /\ UNCHANGED <<jobs, searchTerm, searchIndex, filters, result2,
                   store>>

ViewNext ==
    \/ OnSearchChange
    \/ HandleFilterChange
    \/ HandleClearFilters
    \/ OnSortFieldChange
    \/ OnSortOrderChange

SpecView == ViewInit /\ [][ViewNext]_vars

---------------------------------------------------------------------------
(* What the claims about search speak of, stated without the code          *)

\* The elements of a list
Range(l) == {l[i] : i \in 1..Len(l)}

WhiteSpace == {" ", "\t"}

\* The query is empty or holds white space only
BlankQuery(q) == \A i \in 1..Len(q) : q[i] \in WhiteSpace

\* The maximal runs of text that hold no character of seps
Runs(text, seps) ==
    {SubSeq(text, i, j) : <<i, j>> \in
        {p \in (1..Len(text)) \X (1..Len(text)) :
            /\ p[1] <= p[2]
            /\ \A k \in p[1]..p[2] : text[k] \notin seps
            /\ p[1] = 1 \/ text[p[1] - 1] \in seps
            /\ p[2] = Len(text) \/ text[p[2] + 1] \in seps}}

\* t is a non-empty prefix of w, the whole of w included
NonEmptyPrefix(t, w) == Len(t) >= 1 /\ Len(t) <= Len(w) /\ SubSeq(w, 1, Len(t)) = t

\* t occurs in text
Occurs(t, text) ==
    \E i \in 1..(Len(text) + 1) : \E j \in (i - 1)..Len(text) : SubSeq(text, i, j) = t

Present(texts) == {t \in texts : t # Undefined /\ t # <<>>}

\* The words of the blob of 4.1: the blob is the present fields set apart by
\* spaces, so its words are the words of its fields.
BlobWords(job) ==
    UNION {Runs(ToLowerCase(f), WhiteSpace) : f \in
        Present({job.company, job.role, job.workLocation, job.category, job.notes,
                 job.status, job.experienceLevel, job.jobType, job.workMode})}

\* The texts of the blob of 4.3: those of 4.1, the salary currency, contact
\* names, titles and emails, document names.  A term holds no space and the
\* blob sets the texts apart by spaces, so a term occurs in the blob iff it
\* occurs in one of the texts.
LinearTexts(job) ==
    Present({job.company, job.role, job.workLocation, job.category, job.notes,
             job.status, job.experienceLevel, job.jobType, job.workMode,
             job.salaryRange.currency}
            \cup UNION {{c.name, c.title, c.email} : c \in Range(job.contacts)}
            \cup {d.name : d \in Range(job.documents)})

\* Every white-space-separated term of the query starts a word of the record
PrefixMatch(job, q) ==
    \A t \in Runs(ToLowerCase(q), WhiteSpace) :
        \E w \in BlobWords(job) : NonEmptyPrefix(t, w)

\* Every non-empty space-separated term of the query occurs in the blob
SubstringMatch(job, q) ==
    \A t \in Runs(ToLowerCase(q), {" "}) :
        \E f \in LinearTexts(job) : Occurs(t, ToLowerCase(f))

\* The records of js that satisfy P, in the order of js
Keep(js, P(_)) == SelectSeq(js, P)

---------------------------------------------------------------------------
(* C1..C4: search                                                          *)

\* C1: for a query that is not empty or white-space-only, searchWithIndex
\* with the index built from the same list returns only records of the list,
\* and every record that has, for each white-space-separated lower-cased term
\* of the query, a word starting with the term.
C1_IndexSearchFindsPrefixMatches ==
    (op = "searchWithIndex" /\ ~BlankQuery(searchTerm)
        /\ searchIndex = createSearchIndex(jobs)) =>
        /\ Range(result) \subseteq Range(jobs)
        /\ \A n \in 1..Len(jobs) :
              PrefixMatch(jobs[n], searchTerm) => jobs[n] \in Range(result)

\* C2: createSearchIndex maps a token to exactly the positions (from 0) of
\* the records that have a word of which the token is a non-empty prefix; the
\* empty string is no key and no position lies outside 0..N-1.
C2_IndexIsPrefixIndex ==
    op = "createSearchIndex" =>
        LET words == [n \in 1..Len(jobs) |-> BlobWords(jobs[n])]
        IN  /\ DOMAIN searchIndex =
                  {SubSeq(p[1], 1, p[2]) : p \in
                      UNION {{<<w, k>> : k \in 1..Len(w)} :
                          w \in UNION {words[n] : n \in 1..Len(jobs)}}}
            /\ \A t \in DOMAIN searchIndex :
                  searchIndex[t] =
                      {i \in 0..(Len(jobs) - 1) :
                          \E w \in words[i + 1] : NonEmptyPrefix(t, w)}
            /\ <<>> \notin DOMAIN searchIndex
            /\ \A t \in DOMAIN searchIndex :
                  searchIndex[t] \subseteq 0..(Len(jobs) - 1)

\* C2's case: an index over two records with a token of both and a token of
\* the second alone.
C2_Witness ==
    /\ op = "createSearchIndex"
    /\ Len(jobs) = 2
    /\ \E t \in DOMAIN searchIndex : searchIndex[t] = {0, 1}
    /\ \E t \in DOMAIN searchIndex : searchIndex[t] = {1}

\* C3: for an empty or white-space-only query both searches return the
\* input list unchanged, whatever the index.
C3_BlankQueryIsIdentity ==
    (op \in {"searchWithIndex", "searchJobs"} /\ BlankQuery(searchTerm)) =>
        result = jobs

\* C3's case: a query of a space and a tab, searched through a built index.
C3_Witness ==
    /\ op = "searchWithIndex"
    /\ searchTerm = <<" ", "\t">>
    /\ Len(jobs) = 2
    /\ searchIndex # EmptyMap
    /\ result = jobs

\* C4 as stated: searchJobs returns, in input order, exactly the records in
\* whose blob every non-empty space-separated lower-cased term occurs.
C4_LinearSearchIsSubstringMatch ==
    op = "searchJobs" =>
        result = Keep(jobs, LAMBDA job : SubstringMatch(job, searchTerm))

\* C4 amended: the same for a query that is not empty or white-space-only;
\* an empty or white-space-only query returns the list unchanged.  A term
\* that is part of a word matches: "eng" finds the role "Engineer".
C4_LinearSearchIsSubstringMatchUnlessBlank ==
    op = "searchJobs" =>
        /\ ~BlankQuery(searchTerm) =>
              result = Keep(jobs, LAMBDA job : SubstringMatch(job, searchTerm))
        /\ BlankQuery(searchTerm) => result = jobs
        /\ searchTerm = <<"e", "n", "g">> =>
              \A n \in 1..Len(jobs) :
                  jobs[n].role = <<"E", "n", "g", "i", "n", "e", "e", "r">>
                      => jobs[n] \in Range(result)

\* C4's case: "eng" keeps the Engineer and drops a record without "eng".
C4_Witness ==
    /\ op = "searchJobs"
    /\ searchTerm = <<"e", "n", "g">>
    /\ jobs = <<JobC, JobA>>
    /\ result = <<JobA>>

---------------------------------------------------------------------------
(* What the claims about the filter speak of, stated without the code      *)

\* A field left unset, or set to the sentinel "all", imposes no constraint
Unconstrained(wanted) == wanted \in {Undefined, All}

EnumOk(value, wanted) == Unconstrained(wanted) \/ value = wanted

LocationOk(job, f) ==
    f.location = Undefined
        \/ Occurs(ToLowerCase(f.location), ToLowerCase(job.workLocation))

DigitOf ==
    [c \in {"0", "1", "2", "3", "4", "5", "6", "7", "8", "9"} |->
        CASE c = "0" -> 0 [] c = "1" -> 1 [] c = "2" -> 2 [] c = "3" -> 3
          [] c = "4" -> 4 [] c = "5" -> 5 [] c = "6" -> 6 [] c = "7" -> 7
          [] c = "8" -> 8 [] c = "9" -> 9]

\* The integer a string of digits writes
RECURSIVE Decimal(_)
Decimal(s) ==
    IF Len(s) = 0 THEN 0
    ELSE 10 * Decimal(SubSeq(s, 1, Len(s) - 1)) + DigitOf[s[Len(s)]]

HasText(s) == s # Undefined /\ s # <<>>

\* A record has neither a salary minimum nor a salary maximum
NoSalaryData(job) == ~HasText(job.salaryRange.min) /\ ~HasText(job.salaryRange.max)

\* The overlap test of 4.4: the minimum defaults to 0 and the maximum to the
\* large sentinel of the code.
SalaryOk(job, f) ==
    \A r \in f.salaryRange :
        LET lo == IF HasText(job.salaryRange.min)
                  THEN Decimal(job.salaryRange.min) ELSE 0
            hi == IF HasText(job.salaryRange.max)
                  THEN Decimal(job.salaryRange.max) ELSE SalaryMaxDefault
        IN  lo <= r.max /\ r.min <= hi

\* The dates of the model in the order of the calendar
Calendar == <<"2024-01-01", "2024-01-05", "2024-01-10", "2024-01-20", "2024-02-01">>

DayOf(d) == CHOOSE i \in 1..Len(Calendar) : Calendar[i] = d

DateOk(job, f) ==
    \A r \in f.dateRange :
        DayOf(r.start) <= DayOf(job.appliedDate)
            /\ DayOf(job.appliedDate) <= DayOf(r.end)

\* status is interview, or an interview date or an interview link is present
InterviewDerived(job) ==
    job.status = Interview \/ job.interviewDate # NoDate \/ HasText(job.interviewLink)

InterviewOk(job, f) == \A b \in f.hasInterview : b = InterviewDerived(job)

ArchivedOk(job, f) == f.archived = {} \/ job.archived = f.archived

\* Every predicate of the specification but hasInterview
SatisfiesOthers(job, f) ==
    /\ EnumOk(job.status, f.status)
    /\ EnumOk(job.jobType, f.jobType)
    /\ EnumOk(job.workMode, f.workMode)
    /\ EnumOk(job.experienceLevel, f.experienceLevel)
    /\ EnumOk(job.priority, f.priority)
    /\ EnumOk(job.category, f.category)
    /\ LocationOk(job, f)
    /\ SalaryOk(job, f)
    /\ DateOk(job, f)
    /\ ArchivedOk(job, f)

Satisfies(job, f) == SatisfiesOthers(job, f) /\ InterviewOk(job, f)

\* The specification sets the status alone
OnlyStatus(f) ==
    ~Unconstrained(f.status) /\ f = [EmptyFilter EXCEPT !.status = f.status]

\* The specification sets the salary range alone
OnlySalaryRange(f) ==
    f.salaryRange # {} /\ f = [EmptyFilter EXCEPT !.salaryRange = f.salaryRange]

\* The specification is empty but for enum fields (and the category) at "all"
NoConstraint(f) ==
    /\ f.status \in {Undefined, All} /\ f.jobType \in {Undefined, All}
    /\ f.workMode \in {Undefined, All} /\ f.experienceLevel \in {Undefined, All}
    /\ f.priority \in {Undefined, All} /\ f.category \in {Undefined, All}
    /\ f.location = Undefined /\ f.salaryRange = {} /\ f.dateRange = {}
    /\ f.hasInterview = {} /\ f.archived = {}

---------------------------------------------------------------------------
(* C5..C9: filter                                                          *)

C6_UnconstrainedFilterIsIdentity ==
    (op \in {"filterJobs", "filterAgain"} /\ NoConstraint(filters)) => result = jobs

\* C6's case: every enum field at "all", on records of different status.
C6_Witness ==
    /\ op = "filterJobs"
    /\ filters = AllFilter
    /\ Len(jobs) = 2
    /\ jobs[1].status # jobs[2].status
    /\ result = jobs

\* C7: filterJobs applied to its own result with the same specification
\* returns that result.
C7_FilterIsIdempotent == op = "filterAgain" => result2 = result

\* C7's case: the first pass dropped a record and kept a record.
C7_Witness ==
    /\ op = "filterAgain"
    /\ Len(result) > 0
    /\ Len(result) < Len(jobs)
    /\ result2 = result

\* C8: with a salary range set (and nothing else), a record with neither a
\* salary minimum nor a salary maximum passes, whatever the interval.
C8_NoSalaryDataAlwaysPasses ==
    (op = "filterJobs" /\ OnlySalaryRange(filters)) =>
        \A n \in 1..Len(jobs) :
            NoSalaryData(jobs[n]) => jobs[n] \in Range(result)

\* C9: with hasInterview set to b a record passes iff b equals (status is
\* interview, or an interview date or link is present), the other predicates
\* deciding as they do without it; unset, hasInterview excludes nothing.
C9_HasInterviewIsDerived ==
    op = "filterJobs" =>
        \A n \in 1..Len(jobs) :
            /\ \A b \in filters.hasInterview :
                  jobs[n] \in Range(result) <=>
                      (b = InterviewDerived(jobs[n]) /\ SatisfiesOthers(jobs[n], filters))
            /\ filters.hasInterview = {} =>
                  (jobs[n] \in Range(result) <=> SatisfiesOthers(jobs[n], filters))

\* C9's case: hasInterview = false drops a record that has an interview
\* link alone and keeps a record with no interview.
C9_Witness ==
    /\ op = "filterJobs"
    /\ filters = [EmptyFilter EXCEPT !.hasInterview = {FALSE}]
    /\ jobs = <<JobD, JobA>>
    /\ result = <<JobA>>

---------------------------------------------------------------------------
(* C10: sort                                                               *)

\* The elements of a list from the last to the first
Reverse(l) == [i \in 1..Len(l) |-> l[Len(l) + 1 - i]]

\* No two records of the list have the same applied date
DistinctAppliedDates(js) ==
    \A i, j \in 1..Len(js) : js[i].appliedDate = js[j].appliedDate => i = j

\* C10: for a record list with pairwise distinct applied dates, when the
\* order of the sort by appliedDate is switched (nothing else changing) the
\* list shown is the reverse of the list shown before.
C10_DescIsReverseOfAsc ==
    [][(/\ sort.field = "appliedDate" /\ sort'.field = "appliedDate"
        /\ sort'.order # sort.order
        /\ jobs' = jobs /\ searchTerm' = searchTerm /\ filters' = filters
        /\ DistinctAppliedDates(jobs))
           => result' = Reverse(result)]_vars

\* C10's case: three records applied on three days, shown oldest first
\* after the order was switched from the initial newest first.
C10_Witness ==
    /\ op = "onSortOrderChange"
    /\ sort = [field |-> "appliedDate", order |-> "asc"]
    /\ jobs = <<JobB, JobD, JobA>>
    /\ searchTerm = <<>> /\ filters = EmptyFilter
    /\ result = <<JobA, JobB, JobD>>

---------------------------------------------------------------------------
(* C11: sort by priority                                                   *)

\* The rank of 4.5: high 3, medium 2, low 1, absent 0
PriorityRank(job) ==
    CASE job.priority = High -> 3
      [] job.priority = Medium -> 2
      [] job.priority = Low -> 1
      [] OTHER -> 0

\* The record is found by the search term and accepted by the filter
InView(job) ==
    (BlankQuery(searchTerm) \/ SubstringMatch(job, searchTerm))
        /\ Satisfies(job, filters)

\* C11: when the sort is by priority the list shown is a permutation of the
\* records that pass search and filter, in the order of the rank high 3,
\* medium 2, low 1, absent 0: not falling under "asc" (absent first, high
\* last), not rising under "desc" (high first, absent last).
C11_PrioritySortFollowsRank ==
    sort.field = "priority" =>
        /\ Range(result) = {job \in Range(jobs) : InView(job)}
        /\ \A i, j \in 1..Len(result) : result[i] = result[j] => i = j
        /\ \A i, j \in 1..Len(result) :
              i < j => IF sort.order = "asc"
                       THEN PriorityRank(result[i]) <= PriorityRank(result[j])
                       ELSE PriorityRank(result[i]) >= PriorityRank(result[j])

\* C11's case: records without a priority, with low and with high priority,
\* shown by priority ascending: the one without first, the high one last.
C11_Witness ==
    /\ sort = [field |-> "priority", order |-> "asc"]
    /\ jobs = <<JobB, JobA, JobD>>
    /\ searchTerm = <<>> /\ filters = EmptyFilter
    /\ result = <<JobA, JobD, JobB>>

-----------------------------------------------------------------------------
(* The default view                                                        *)

\* The tracker as it opens and as "clear filters" leaves it: no search term,
\* useState<FilterOptions>({}) for the filters.
DefaultView == BlankQuery(searchTerm) /\ filters = EmptyFilter

\* C17: in the default view of the tracker (no search term, no filter chosen)
\* no record whose archived flag is true is in the displayed list.
C17_DefaultViewHidesArchived ==
    DefaultView => \A i \in 1..Len(result) : result[i].archived # {TRUE}

-----------------------------------------------------------------------------
(* jobStorage (src/lib/schemas.ts)                                         *)
(*                                                                         *)
(* A stored record is a function from its keys to their values: a key that *)
(* JSON.stringify drops (absent, or undefined) is not in the DOMAIN.  The  *)
(* flag `archived` is a boolean here, as in the stored JSON.  A time is a  *)
(* tick of `clock`, and a date the tick of its midnight;                   *)
(* crypto.randomUUID() is the pair of the tick and the place where it was  *)
(* drawn, which no other draw shares.  Notes are tuples of their parts.    *)

MaxTicks == 4     \* storage operations in a run
MaxStored == 2    \* records in the store

Mid == <<"m", "i", "d">>
Usd == <<"U", "S", "D">>
Nyc == <<"N", "Y", "C">>
NotSpecified ==
    <<"N", "o", "t", " ", "s", "p", "e", "c", "i", "f", "i", "e", "d">>

\* {...a, ...b}
ObjectSpread(a, b) ==
    [k \in DOMAIN a \cup DOMAIN b |-> IF k \in DOMAIN b THEN b[k] ELSE a[k]]

\* Boolean(o[k]) for a text field: absent, undefined and "" are falsy
TruthyText(o, k) == k \in DOMAIN o /\ Truthy(o[k])

\* o[k] || d for a text field
TextOr(o, k, d) == IF TruthyText(o, k) THEN o[k] ELSE d

\* o[k] || d for an array or object field: every array and object is truthy
ArrayOr(o, k, d) == IF k \in DOMAIN o THEN o[k] ELSE d

\* o[k] || false for a boolean field
BoolOr(o, k) == k \in DOMAIN o /\ o[k] = TRUE

\* crypto.randomUUID() drawn at time `tick` for the n-th record read
\* (n = 0: drawn by add or update itself)
RandomUUID(tick, n) == [tick |-> tick, n |-> n]

\* {id, status: job.status, date: job.appliedDate + "T00:00:00.000Z",
\*  notes: "Migrated from old format"}
MigratedEntry(job, uuid) ==
    [id |-> uuid, status |-> job.status,
     date |-> job.appliedDate,
     notes |-> <<"Migrated from old format">>]

\* job.salaryRange && job.workLocation && job.jobType && job.workMode
IsNewFormat(job) ==
    /\ "salaryRange" \in DOMAIN job
    /\ TruthyText(job, "workLocation")
    /\ TruthyText(job, "jobType")
    /\ TruthyText(job, "workMode")

\* The first return of migrateJobApplication: defaults for what is missing
MigrateNewFormat(job, uuid) ==
    ObjectSpread(job,
        [statusHistory |-> ArrayOr(job, "statusHistory",
                                   <<MigratedEntry(job, uuid)>>),
         contacts |-> ArrayOr(job, "contacts", <<>>),
         documents |-> ArrayOr(job, "documents", <<>>),
         priority |-> TextOr(job, "priority", Medium),
         archived |-> BoolOr(job, "archived")])

\* The second return of migrateJobApplication.  No record written by add has
\* the old field expectedSalary, so salaryRange.min and .max are "".
MigrateOldFormat(job, uuid) ==
    ObjectSpread(job,
        [salaryRange |-> [min |-> <<>>, max |-> <<>>, currency |-> Usd],
         workLocation |-> TextOr(job, "workLocation", NotSpecified),
         jobType |-> TextOr(job, "jobType", FullTime),
         workMode |-> TextOr(job, "workMode", OnSite),
         category |-> TextOr(job, "category", <<>>),
         experienceLevel |-> TextOr(job, "experienceLevel", Mid),
         jobPostingUrl |-> TextOr(job, "jobPostingUrl", <<>>),
         statusHistory |-> <<MigratedEntry(job, uuid)>>,
         contacts |-> <<>>,
         documents |-> <<>>,
         priority |-> Medium,
         archived |-> FALSE])

migrateJobApplication(job, uuid) ==
    IF IsNewFormat(job) THEN MigrateNewFormat(job, uuid)
    ELSE MigrateOldFormat(job, uuid)

\* jobStorage.getAll: JSON.parse(stored).map(migrateJobApplication)
getAll(stored, tick) ==
    [i \in 1..Len(stored) |->
        migrateJobApplication(stored[i], RandomUUID(tick, i))]

\* The record jobStorage.add builds from its argument
NewApplication(application, tick) ==
    ObjectSpread(application,
        [id |-> tick,
         statusHistory |-> <<[id |-> RandomUUID(tick, 0),
                              status |-> application.status,
                              date |-> tick,
                              notes |-> <<"Application created">>]>>,
         contacts |-> ArrayOr(application, "contacts", <<>>),
         documents |-> ArrayOr(application, "documents", <<>>),
         archived |-> FALSE])

\* applications.findIndex((app) => app.id === id), 0 for -1
FindIndex(applications, id) ==
    IF \E i \in 1..Len(applications) : applications[i].id = id
    THEN CHOOSE i \in 1..Len(applications) :
            /\ applications[i].id = id
            /\ \A j \in 1..(i - 1) : applications[j].id # id
    ELSE 0

\* updates.status && updates.status !== oldApp.status
StatusChanges(oldApp, updates) ==
    TruthyText(updates, "status") /\ updates.status # oldApp.status

\* {id, status: updates.status, date: now,
\*  notes: `Status changed from ${oldApp.status} to ${updates.status}`}
ChangeEntry(oldApp, updates, tick) ==
    [id |-> RandomUUID(tick, 0), status |-> updates.status, date |-> tick,
     notes |-> <<"Status changed from", oldApp.status, "to", updates.status>>]

\* updatedApp of jobStorage.update
UpdatedApp(oldApp, updates, tick) ==
    IF StatusChanges(oldApp, updates)
    THEN ObjectSpread(ObjectSpread(oldApp, updates),
            [statusHistory |->
                Append(ArrayOr(oldApp, "statusHistory", <<>>),
                       ChangeEntry(oldApp, updates, tick))])
    ELSE ObjectSpread(oldApp, updates)

\* What jobStorage.update saves; nothing is saved when the id is not found.
UpdateAt(applications, index, updates, tick, stored) ==
    IF index = 0 THEN stored
    ELSE [applications EXCEPT
            ![index] = UpdatedApp(applications[index], updates, tick)]

\* What AddJobDialog.onSubmit hands to onAddJob -> jobStorage.add: the form
\* data (workLocation is required by the form), priority defaulted, empty
\* contacts and documents, and a statusHistory of its own making.
TypedApplication ==
    [company |-> <<"A", "c", "m", "e">>,
     appliedDate |-> 0,
     salaryRange |-> [min |-> <<>>, max |-> <<>>, currency |-> Usd],
     workLocation |-> Nyc, jobType |-> FullTime, workMode |-> Remote,
     status |-> Applied, priority |-> Medium,
     contacts |-> <<>>, documents |-> <<>>,
     statusHistory |-> <<[id |-> RandomUUID(0, 0), status |-> Applied,
                          date |-> 0, notes |-> <<"Application created">>]>>]

\* A row of an imported CSV file with an empty location column and no
\* priority column, as DataExportService.importFromCSV builds it and
\* handleImportData hands it (without its id) to jobStorage.add.
CsvApplication ==
    [company |-> <<"B", "o", "l", "t">>,
     appliedDate |-> 0,
     salaryRange |-> [min |-> <<>>, max |-> <<>>, currency |-> Usd],
     workLocation |-> <<>>, jobType |-> FullTime, workMode |-> OnSite,
     status |-> Applied]

\* A row of an imported CSV file with a location and no priority column
LocatedCsvApplication ==
    [company |-> <<"C", "o", "r", "e">>,
     appliedDate |-> 0,
     salaryRange |-> [min |-> <<>>, max |-> <<>>, currency |-> Usd],
     workLocation |-> Nyc, jobType |-> FullTime, workMode |-> OnSite,
     status |-> Applied]

\* A record of an imported JSON export: it carries the history and the
\* archived flag it had when exported.
ExportedApplication ==
    [company |-> <<"D", "e", "l", "t", "a">>,
     appliedDate |-> 0,
     salaryRange |-> [min |-> <<>>, max |-> <<>>, currency |-> Usd],
     workLocation |-> Nyc, jobType |-> PartTime, workMode |-> Hybrid,
     status |-> Interview, priority |-> High,
     contacts |-> <<>>, documents |-> <<>>,
     archived |-> TRUE,
     statusHistory |-> <<[id |-> RandomUUID(0, 1), status |-> Applied,
                          date |-> 0, notes |-> <<"Application created">>],
                         [id |-> RandomUUID(0, 2), status |-> Interview,
                          date |-> 0,
                          notes |-> <<"Status changed from", Applied,
                                      "to", Interview>>]>>]

Applications ==
    {TypedApplication, CsvApplication, LocatedCsvApplication,
     ExportedApplication}

\* Partial<JobApplication> values handed to jobStorage.update: the status
\* change of a card, an edit that keeps the status, and two partial records
\* that carry a statusHistory and an id.
Updates ==
    {[status |-> Applied], [status |-> Interview], [priority |-> High],
     [statusHistory |-> <<>>], [id |-> 1]}

\* The ids of the stored records
StoredIds == {storage[i].id : i \in 1..Len(storage)}

\* The ids an operation is called with: those stored and one that is not
CallIds == StoredIds \cup {0}

StorageInit ==
    /\ jobs = <<>>
    /\ searchTerm = <<>>
    /\ searchIndex = EmptyMap
    /\ filters = EmptyFilter
    /\ sort = DefaultSort
    /\ result = <<>>
    /\ result2 = <<>>
    /\ op = "none"
    /\ StoreInit

\* jobStorage.add(application)
Add(application) ==
    /\ clock < MaxTicks
    /\ Len(storage) < MaxStored
    /\ clock' = clock + 1
    /\ storage' = Append(getAll(storage, clock + 1),
                         NewApplication(application, clock + 1))
    /\ call' = [name |-> "add", application |-> application]
    /\ UNCHANGED <<jobs, searchTerm, searchIndex, filters, sort, result,
                   result2, op, documents, services>>

\* What jobStorage.update(id, updates) leaves in the store at time `tick`
update(id, updates, tick) ==
    UpdateAt(getAll(storage, tick), FindIndex(storage, id), updates, tick,
             storage)

\* jobStorage.update(id, updates)
Update(id, updates) ==
    /\ clock < MaxTicks
    /\ clock' = clock + 1
    /\ storage' = update(id, updates, clock + 1)
    /\ call' = [name |-> "update", id |-> id, updates |-> updates]
    /\ UNCHANGED <<jobs, searchTerm, searchIndex, filters, sort, result,
                   result2, op, documents, services>>

\* jobStorage.archive(id): jobStorage.update(id, {archived: true})
Archive(id) ==
    /\ clock < MaxTicks
    /\ clock' = clock + 1
    /\ storage' = update(id, [archived |-> TRUE], clock + 1)
    /\ call' = [name |-> "archive", id |-> id]
    /\ UNCHANGED <<jobs, searchTerm, searchIndex, filters, sort, result,
                   result2, op, documents, services>>

\* jobStorage.unarchive(id): jobStorage.update(id, {archived: false})
Unarchive(id) ==
    /\ clock < MaxTicks
    /\ clock' = clock + 1
    /\ storage' = update(id, [archived |-> FALSE], clock + 1)
    /\ call' = [name |-> "unarchive", id |-> id]
    /\ UNCHANGED <<jobs, searchTerm, searchIndex, filters, sort, result,
                   result2, op, documents, services>>

\* applications.filter((app) => app.id !== id)
WithoutId(applications, id) == SelectSeq(applications, LAMBDA app : app.id # id)

\* jobStorage.delete(id)
Delete(id) ==
    /\ clock < MaxTicks
    /\ clock' = clock + 1
    /\ storage' = WithoutId(getAll(storage, clock + 1), id)
    /\ call' = [name |-> "delete", id |-> id]
    /\ UNCHANGED <<jobs, searchTerm, searchIndex, filters, sort, result,
                   result2, op, documents, services>>

StorageNext ==
    \/ \E application \in Applications : Add(application)
    \/ \E id \in CallIds, updates \in Updates : Update(id, updates)
    \/ \E id \in CallIds : Archive(id)
    \/ \E id \in CallIds : Unarchive(id)
    \/ \E id \in CallIds : Delete(id)

SpecStorage == StorageInit /\ [][StorageNext]_vars

-----------------------------------------------------------------------------
(* Claims about jobStorage                                                 *)

\* h is the beginning of g: g has every entry of h, unmodified, in place
IsPrefix(h, g) ==
    Len(h) <= Len(g) /\ \A k \in 1..Len(h) : g[k] = h[k]

\* The step is jobStorage.update(id, updates) for a stored id
UpdatesStored == call'.name = "update" /\ FindIndex(storage, call'.id) # 0

\* The status history of the updated record before and after the step
HistoryBefore == storage[FindIndex(storage, call'.id)].statusHistory
HistoryAfter == storage'[FindIndex(storage, call'.id)].statusHistory

\* The update names a status other than the one the record has
NamesOtherStatus ==
    StatusChanges(storage[FindIndex(storage, call'.id)], call'.updates)

\* The history grew by exactly one entry, which carries the new status
OneEntryAppended(h, g, status) ==
    /\ Len(g) = Len(h) + 1
    /\ IsPrefix(h, g)
    /\ g[Len(g)].status = status

\* C12: jobStorage.update(id, updates) on an existing record whose status
\* differs from updates.status appends exactly one entry, carrying the new
\* status, to the record's status history and leaves every earlier entry
\* unmodified; an update that does not change the status appends no entry.
C12_UpdateAppendsOneEntryPerStatusChange ==
    [][UpdatesStored =>
         IF NamesOtherStatus
         THEN OneEntryAppended(HistoryBefore, HistoryAfter,
                               call'.updates.status)
         ELSE Len(HistoryAfter) <= Len(HistoryBefore)]_vars

\* The step is one of the operations that keep every stored record in place
KeepsRecords == call'.name \in {"add", "update", "archive", "unarchive"}

\* C13: the status history of a record is append-only: across add, update
\* (with any partial update), archive and unarchive the history a record had
\* before the operation is a prefix of the history it has after it.
C13_StatusHistoryIsAppendOnly ==
    [][KeepsRecords =>
         \A i \in 1..Len(storage) :
            IsPrefix(storage[i].statusHistory, storage'[i].statusHistory)]_vars

\* The ids of a record list, in order
IdsOf(applications) == [i \in 1..Len(applications) |-> applications[i].id]

\* No two stored records share an id
DistinctIds ==
    \A i, j \in 1..Len(storage) : storage[i].id = storage[j].id => i = j

\* Across the step every record that stays in the store keeps its id: add
\* gives the new record the id it draws, delete only removes.
IdsKept ==
    /\ KeepsRecords => SubSeq(IdsOf(storage'), 1, Len(storage)) = IdsOf(storage)
    /\ call'.name = "delete" =>
          IdsOf(storage') =
             SelectSeq(IdsOf(storage), LAMBDA id : id # call'.id)

\* C14: after any sequence of add, update, archive, unarchive and delete the
\* ids of the stored records are pairwise distinct, and every record still
\* carries the id that add assigned to it.
C14_IdsDistinctAndImmutable == []DistinctIds /\ [][IdsKept]_vars

\* The store after the step is the store before it, but for the flag
\* `archived` of the record with the id of the call, which is `flag`.
OnlyArchivedSet(flag) ==
    /\ Len(storage') = Len(storage)
    /\ \A i \in 1..Len(storage) :
          storage'[i] = IF i = FindIndex(storage, call'.id)
                        THEN ObjectSpread(storage[i], [archived |-> flag])
                        ELSE storage[i]

\* C16: jobStorage.archive(id) keeps the record in the stored collection and
\* changes only its archived flag to true: every other field of the record,
\* its status history included, and every other record are unchanged;
\* unarchive(id) only sets the flag back to false.
C16_ArchiveChangesOnlyTheFlag ==
    [][/\ call'.name = "archive" => OnlyArchivedSet(TRUE)
       /\ call'.name = "unarchive" => OnlyArchivedSet(FALSE)]_vars

\* The record the step appended to the store
Added == storage'[Len(storage')]

\* The appended record has the single 'created' entry and is not archived
AddedAsCreated ==
    /\ Len(Added.statusHistory) = 1
    /\ Added.statusHistory[1].status = call'.application.status
    /\ Added.archived = FALSE

\* The records stored before the step are stored after it, as they were
StoredUnchanged ==
    /\ Len(storage') = Len(storage) + 1
    /\ \A i \in 1..Len(storage) : storage'[i] = storage[i]

\* C18: jobStorage.add stores the new record with a status history of exactly
\* one entry, whose status is the record's initial status, and with
\* archived = false, whatever status history or archived value the caller
\* passed in; every record already stored is unchanged.
C18_AddCreatesOneEntryAndKeepsTheRest ==
    [][call'.name = "add" => AddedAsCreated /\ StoredUnchanged]_vars

-----------------------------------------------------------------------------
(* DocumentService (src/lib/schemas.ts)                                    *)
(*                                                                         *)
(* A document is a function from its keys to their values; a document      *)
(* without a jobId has no such key.  File sizes are in megabytes.          *)

MaxDocuments == 2   \* documents held by the service

\* Two of the default categories: allowed extensions and maxSize
Categories ==
    [resume |-> [allowedTypes |-> {".pdf", ".doc", ".docx"}, maxSize |-> 5],
     portfolio |-> [allowedTypes |-> {".pdf", ".doc", ".docx", ".ppt",
                                      ".pptx", ".zip"},
                    maxSize |-> 50]]

\* Files offered for upload: extension and size
Files ==
    {[extension |-> ".pdf", size |-> 1],
     [extension |-> ".zip", size |-> 1],
     [extension |-> ".pdf", size |-> 6]}

\* The checks of uploadDocument that throw
UploadRejected(file, type) ==
    \/ type \notin DOMAIN Categories
    \/ file.extension \notin Categories[type].allowedTypes
    \/ file.size > Categories[type].maxSize

\* The document uploadDocument builds; jobIds is {} for no jobId
NewDocument(file, type, jobIds, tick) ==
    IF jobIds = {}
    THEN [id |-> tick, type |-> type, fileSize |-> file.size]
    ELSE [id |-> tick, type |-> type, fileSize |-> file.size,
          jobId |-> CHOOSE id \in jobIds : TRUE]

\* The ids of the documents held
DocumentIds == {documents[i].id : i \in 1..Len(documents)}

\* documentService.uploadDocument(file, type, jobId): the document manager
\* of a job passes that job's id, the general one passes none.
UploadDocument(file, type, jobIds) ==
    /\ clock < MaxTicks
    /\ Len(documents) < MaxDocuments
    /\ clock' = clock + 1
    /\ documents' = IF UploadRejected(file, type) THEN documents
                    ELSE Append(documents,
                                NewDocument(file, type, jobIds, clock + 1))
    /\ call' = [name |-> "uploadDocument", file |-> file, type |-> type,
                jobIds |-> jobIds]
    /\ UNCHANGED <<jobs, searchTerm, searchIndex, filters, sort, result,
                   result2, op, storage, services>>

\* doc.jobId = jobId for the document with the given id
WithJobId(docs, documentId, jobId) ==
    [i \in 1..Len(docs) |->
        IF docs[i].id = documentId
        THEN ObjectSpread(docs[i], [jobId |-> jobId])
        ELSE docs[i]]

\* documentService.attachDocumentToJob(documentId, jobId)
AttachDocumentToJob(documentId, jobId) ==
    /\ clock < MaxTicks
    /\ clock' = clock + 1
    /\ documents' = WithJobId(documents, documentId, jobId)
    /\ call' = [name |-> "attachDocumentToJob", documentId |-> documentId,
                jobId |-> jobId]
    /\ UNCHANGED <<jobs, searchTerm, searchIndex, filters, sort, result,
                   result2, op, storage, services>>

\* delete doc.jobId for the document with the given id
WithoutJobId(docs, documentId) ==
    [i \in 1..Len(docs) |->
        IF docs[i].id = documentId
        THEN [k \in DOMAIN docs[i] \ {"jobId"} |-> docs[i][k]]
        ELSE docs[i]]

\* documentService.detachDocumentFromJob(documentId)
DetachDocumentFromJob(documentId) ==
    /\ clock < MaxTicks
    /\ clock' = clock + 1
    /\ documents' = WithoutJobId(documents, documentId)
    /\ call' = [name |-> "detachDocumentFromJob", documentId |-> documentId]
    /\ UNCHANGED <<jobs, searchTerm, searchIndex, filters, sort, result,
                   result2, op, storage, services>>

\* documentService.deleteDocument(id)
DeleteDocument(id) ==
    /\ clock < MaxTicks
    /\ clock' = clock + 1
    /\ documents' = SelectSeq(documents, LAMBDA d : d.id # id)
    /\ call' = [name |-> "deleteDocument", id |-> id]
    /\ UNCHANGED <<jobs, searchTerm, searchIndex, filters, sort, result,
                   result2, op, storage, services>>

\* The job ids a document operation is called with: the callers pass the id
\* of a record the tracker shows.
JobIdChoices == {{id} : id \in StoredIds} \cup {{}}

DocumentsNext ==
    \/ Add(TypedApplication)
    \/ \E id \in StoredIds : Delete(id)
    \/ \E file \in Files, type \in DOMAIN Categories, jobIds \in JobIdChoices :
          UploadDocument(file, type, jobIds)
    \/ \E documentId \in DocumentIds \cup {0}, jobId \in StoredIds :
          AttachDocumentToJob(documentId, jobId)
    \/ \E documentId \in DocumentIds \cup {0} :
          DetachDocumentFromJob(documentId)
    \/ \E id \in DocumentIds \cup {0} : DeleteDocument(id)

SpecDocuments == StorageInit /\ [][DocumentsNext]_vars

\* C15: after any sequence of job add and delete operations and document
\* upload, attach, detach and delete operations, every document that has a
\* jobId refers to a record that is currently in the job collection.
C15_DocumentsReferToStoredRecords ==
    \A i \in 1..Len(documents) :
        "jobId" \in DOMAIN documents[i] => documents[i].jobId \in StoredIds

-----------------------------------------------------------------------------
(* StatusAutomationService.analyzeJobs (src/lib/statusAutomationService.ts) *)
(*                                                                         *)
(* An instant is a whole number of hours since the epoch, so that `now`    *)
(* falls within a day while new Date("YYYY-MM-DD") is a midnight.  A       *)
(* confidence is the exact fraction num / den of the formula.              *)

MaxTracked == 2   \* records handed to analyzeJobs

\* 1000 * 60 * 60 * 24 ms, in hours
DayLength == 24

\* this.rules.filter((r) => r.isActive)
getActiveRules(rules) == SelectSeq(rules, LAMBDA r : r.isActive)

\* Math.floor((now.getTime() - new Date(date).getTime()) / (1000*60*60*24))
DaysSince(now, time) ==
    IF time.nan THEN NaN ELSE Num((now - time.v * DayLength) \div DayLength)

\* Faulty variant of Elapsed: the delay must be exceeded, not reached.
ElapsedStrictly(days, rule) ==
    rule.timeDelay # 0 /\ ~days.nan /\ days.v > rule.timeDelay

\* rule.timeDelay is truthy and days >= rule.timeDelay (false for NaN)
Elapsed(days, rule) ==
    rule.timeDelay # 0 /\ ~days.nan /\ days.v >= rule.timeDelay

\* min(a, b) of two fractions
MinFraction(a, b) == IF a.num * b.den <= b.num * a.den THEN a ELSE b

\* Faulty variant of TimeElapsedConfidence: the cap of 0.9 is left out.
TimeElapsedConfidenceUncapped(days, delay) ==
    [num |-> 5 * delay + 4 * days, den |-> 10 * delay]

\* Math.min(0.9, 0.5 + (daysSinceApplied / rule.timeDelay) * 0.4)
TimeElapsedConfidence(days, delay) ==
    MinFraction([num |-> 9, den |-> 10],
                [num |-> 5 * delay + 4 * days, den |-> 10 * delay])

\* Math.min(0.95, 0.6 + (daysSinceInterview / rule.timeDelay) * 0.35)
InterviewPassedConfidence(days, delay) ==
    MinFraction([num |-> 95, den |-> 100],
                [num |-> 60 * delay + 35 * days, den |-> 100 * delay])

\* Faulty variant of Suggestion: the suggestion is marked for automatic use.
SuggestionAutoApplied(job, rule, reason, confidence) ==
    [jobId |-> job.id, currentStatus |-> job.status,
     suggestedStatus |-> rule.toStatus, reason |-> <<rule.name, reason>>,
     confidence |-> confidence, autoApply |-> TRUE]

\* The suggestion pushed for a job under a rule
Suggestion(job, rule, reason, confidence) ==
    [jobId |-> job.id, currentStatus |-> job.status,
     suggestedStatus |-> rule.toStatus, reason |-> <<rule.name, reason>>,
     confidence |-> confidence, autoApply |-> FALSE]

\* case "time_elapsed": what is pushed, given daysSinceApplied
TimeElapsedCase(job, rule, days) ==
    IF Elapsed(days, rule)
    THEN <<Suggestion(job, rule, <<days.v, "days since application">>,
                      TimeElapsedConfidence(days.v, rule.timeDelay))>>
    ELSE <<>>

\* case "interview_date_passed": what is pushed, given daysSinceInterview
InterviewPassedCase(job, rule, days) ==
    IF job.interviewDate # NoDate /\ Elapsed(days, rule)
    THEN <<Suggestion(job, rule, <<days.v, "days since interview">>,
                      InterviewPassedConfidence(days.v, rule.timeDelay))>>
    ELSE <<>>

\* The callback of activeRules.forEach for one job: what it pushes
RuleSuggestions(job, rule, now) ==
    IF job.status # rule.fromStatus THEN <<>>
    ELSE CASE rule.condition = "time_elapsed" ->
                TimeElapsedCase(job, rule,
                                DaysSince(now, GetTime(job.appliedDate)))
           [] rule.condition = "interview_date_passed" ->
                InterviewPassedCase(job, rule,
                                    DaysSince(now, GetTime(job.interviewDate)))
           [] OTHER -> <<>>

\* The callback of jobs.forEach: the pushes for one job, rule after rule
JobSuggestions(job, rules, now) ==
    Flat([r \in 1..Len(rules) |-> RuleSuggestions(job, rules[r], now)])

\* a has a higher confidence than b
MoreConfident(a, b) ==
    a.confidence.num * b.confidence.den > b.confidence.num * a.confidence.den

\* The place of the i-th suggestion after
\* suggestions.sort((a, b) => b.confidence - a.confidence): after those of
\* higher confidence and the earlier ones of equal confidence (stable sort)
SortedPlace(suggestions, i) ==
    1 + Cardinality({j \in 1..Len(suggestions) :
                        \/ MoreConfident(suggestions[j], suggestions[i])
                        \/ /\ j < i
                           /\ ~MoreConfident(suggestions[i], suggestions[j])})

SortByConfidence(suggestions) ==
    [p \in 1..Len(suggestions) |->
        suggestions[CHOOSE i \in 1..Len(suggestions) :
                        SortedPlace(suggestions, i) = p]]

\* analyzeJobs(jobs) with the given rules at the instant `now`
analyzeJobs(list, rules, now) ==
    SortByConfidence(
        Flat([i \in 1..Len(list) |->
                JobSuggestions(list[i], getActiveRules(rules), now)]))

\* A record as analyzeJobs reads it
Tracked(id, status, appliedDate, interviewDate) ==
    [id |-> id, status |-> status, appliedDate |-> appliedDate,
     interviewDate |-> interviewDate]

TrackedPool ==
    {Tracked("1", Applied, "2024-01-20", NoDate),
     Tracked("2", Applied, "2024-02-01", NoDate),
     Tracked("3", Shortlisted, "2024-01-20", NoDate),
     Tracked("4", Interview, "2024-01-05", "2024-01-20"),
     Tracked("5", Rejected, "2024-01-01", NoDate)}

\* The instants at which analyzeJobs is called: the first and the last hour
\* of 2024-01-31, 2024-02-07, 2024-02-08 and 2024-02-09
Instants ==
    {day * DayLength + hour : day \in {19753, 19760, 19761, 19762},
                              hour \in {0, DayLength - 1}}

AutomationInit ==
    /\ jobs \in RecordLists(TrackedPool, MaxTracked)
    /\ searchTerm = <<>>
    /\ searchIndex = EmptyMap
    /\ filters = EmptyFilter
    /\ sort = DefaultSort
    /\ result = <<>>
    /\ result2 = <<>>
    /\ op = "none"
    /\ StoreInit

\* statusAutomationService.analyzeJobs(jobs), called when new Date() is `now`
AnalyzeJobs(now) ==
    /\ result' = analyzeJobs(jobs, statusRules, now)
    /\ call' = [name |-> "analyzeJobs", now |-> now]
    /\ UNCHANGED <<jobs, searchTerm, searchIndex, filters, sort, result2, op,
                   storage, documents, clock, services>>

AutomationNext == \E now \in Instants : AnalyzeJobs(now)

SpecAutomation == AutomationInit /\ [][AutomationNext]_vars

-----------------------------------------------------------------------------
(* Claims about analyzeJobs                                                *)

\* The last step was analyzeJobs
Analyzed == call.name = "analyzeJobs"

\* The whole days from the midnight of the record's applied date to now
WholeDaysAgo(job) ==
    CHOOSE d \in -400..400 :
        /\ (DateTable[job.appliedDate] + d) * DayLength <= call.now
        /\ call.now < (DateTable[job.appliedDate] + d + 1) * DayLength

\* The suggestions returned for a record
SuggestionsFor(job) == SelectSeq(result, LAMBDA sg : sg.jobId = job.id)

\* The confidence lies in [0.5, 0.9]
InHalfToNineTenths(c) == 2 * c.num >= c.den /\ 10 * c.num <= 9 * c.den

\* Exactly one suggestion for the record: an advisory one within the range
OneAdvisorySuggestion(job) ==
    /\ Len(SuggestionsFor(job)) = 1
    /\ InHalfToNineTenths(SuggestionsFor(job)[1].confidence)
    /\ SuggestionsFor(job)[1].suggestedStatus = job.status
    /\ SuggestionsFor(job)[1].autoApply = FALSE

\* C19: with the default rule set, analyzeJobs on a record with status
\* 'applied' that was applied d >= 7 whole days ago yields exactly one
\* suggestion for that record, with confidence in [0.5, 0.9], suggestedStatus
\* equal to the current status and autoApply false; a record applied fewer
\* than 7 whole days ago yields no suggestion.
C19_AppliedFlaggedFromSevenDays ==
    Analyzed =>
        \A i \in 1..Len(jobs) :
            jobs[i].status = Applied =>
                IF WholeDaysAgo(jobs[i]) >= 7
                THEN OneAdvisorySuggestion(jobs[i])
                ELSE Len(SuggestionsFor(jobs[i])) = 0

\* One record applied at least seven whole days ago has its one suggestion,
\* and another applied six whole days ago has none.
C19_Witness ==
    /\ Analyzed
    /\ \E i \in 1..Len(jobs) :
          /\ jobs[i].status = Applied
          /\ WholeDaysAgo(jobs[i]) >= 7
          /\ OneAdvisorySuggestion(jobs[i])
    /\ \E i \in 1..Len(jobs) :
          /\ jobs[i].status = Applied
          /\ WholeDaysAgo(jobs[i]) = 6
          /\ Len(SuggestionsFor(jobs[i])) = 0

\* Two 'applied' records, the first applied 20 days ago and the second 8
TwentyAndEight(a, b) ==
    /\ a.status = Applied /\ WholeDaysAgo(a) = 20
    /\ b.status = Applied /\ WholeDaysAgo(b) = 8

\* Both records are flagged, once each
BothFlagged(a, b) ==
    Len(SuggestionsFor(a)) = 1 /\ Len(SuggestionsFor(b)) = 1

\* The confidence is 0.9
IsNineTenths(c) == 10 * c.num = 9 * c.den

\* C20 as stated: for two records with status 'applied' under the active
\* time_elapsed rule of threshold 7, one applied 20 days ago and one 8 days
\* ago, analyzeJobs flags both and gives the 20-day record a strictly higher
\* confidence than the 8-day record.
C20_LongerWaitStrictlyMoreConfident ==
    Analyzed =>
        \A i, j \in 1..Len(jobs) :
            TwentyAndEight(jobs[i], jobs[j]) =>
                /\ BothFlagged(jobs[i], jobs[j])
                /\ MoreConfident(SuggestionsFor(jobs[i])[1],
                                 SuggestionsFor(jobs[j])[1])

\* C20, amended: analyzeJobs flags both records and gives both the
\* confidence 0.9, the cap: the 20-day record's confidence equals that of
\* the 8-day record, it is not strictly higher.
C20_BothFlaggedAtTheCap ==
    Analyzed =>
        \A i, j \in 1..Len(jobs) :
            TwentyAndEight(jobs[i], jobs[j]) =>
                /\ BothFlagged(jobs[i], jobs[j])
                /\ IsNineTenths(SuggestionsFor(jobs[i])[1].confidence)
                /\ IsNineTenths(SuggestionsFor(jobs[j])[1].confidence)

C20_Witness ==
    /\ Analyzed
    /\ Len(jobs) = 2
    /\ TwentyAndEight(jobs[1], jobs[2])
    /\ Len(result) = 2
    /\ result[1].jobId = jobs[1].id
    /\ IsNineTenths(result[2].confidence)

-----------------------------------------------------------------------------
(* StatusAutomationService: the rule set and autoProgressStatus            *)

MaxRuleOps == 2   \* createRule / updateRule / deleteRule calls in a run

\* Omit<StatusRule, "id" | "createdAt"> values handed to createRule; a rule
\* without a timeDelay has timeDelay 0 (both are falsy).
RuleData ==
    {[name |-> "Applied -> Interview", fromStatus |-> Applied,
      toStatus |-> Interview, condition |-> "time_elapsed", timeDelay |-> 1,
      isActive |-> TRUE],
     [name |-> "Interview -> Offered", fromStatus |-> Interview,
      toStatus |-> Offered, condition |-> "interview_date_passed",
      timeDelay |-> 1, isActive |-> TRUE],
     [name |-> "Applied -> Rejected", fromStatus |-> Applied,
      toStatus |-> Rejected, condition |-> "manual_trigger", timeDelay |-> 0,
      isActive |-> TRUE]}

\* Partial<StatusRule> values handed to updateRule
RuleUpdates ==
    {[isActive |-> FALSE], [timeDelay |-> 1, toStatus |-> Offered]}

\* The ids of the rules held
RuleIds == {statusRules[i].id : i \in 1..Len(statusRules)}

\* createRule(ruleData): {...ruleData, id: this.generateId(), createdAt}
CreateRule(ruleData) ==
    /\ clock < MaxRuleOps
    /\ clock' = clock + 1
    /\ statusRules' =
          Append(statusRules,
                 ObjectSpread(ruleData,
                              [id |-> "rule-" \o ToString(clock + 1)]))
    /\ call' = [name |-> "createRule", ruleData |-> ruleData]
    /\ UNCHANGED <<jobs, searchTerm, searchIndex, filters, sort, result,
                   result2, op, storage, documents, exportFile, others>>

\* updateRule(id, updates): nothing changes for an id that is not held
UpdateRule(id, updates) ==
    /\ clock < MaxRuleOps
    /\ clock' = clock + 1
    /\ statusRules' =
          [i \in 1..Len(statusRules) |->
              IF statusRules[i].id = id
              THEN ObjectSpread(statusRules[i], updates)
              ELSE statusRules[i]]
    /\ call' = [name |-> "updateRule", id |-> id, updates |-> updates]
    /\ UNCHANGED <<jobs, searchTerm, searchIndex, filters, sort, result,
                   result2, op, storage, documents, exportFile, others>>

\* deleteRule(id)
DeleteRule(id) ==
    /\ clock < MaxRuleOps
    /\ clock' = clock + 1
    /\ statusRules' = SelectSeq(statusRules, LAMBDA r : r.id # id)
    /\ call' = [name |-> "deleteRule", id |-> id]
    /\ UNCHANGED <<jobs, searchTerm, searchIndex, filters, sort, result,
                   result2, op, storage, documents, exportFile, others>>

\* s.jobId === job.id && s.autoApply && s.confidence > 0.8
Applicable(job, sg) ==
    /\ sg.jobId = job.id
    /\ sg.autoApply
    /\ 10 * sg.confidence.num > 8 * sg.confidence.den

\* The job autoProgressStatus returns for the suggestion found
Progressed(job, sg, now) ==
    ObjectSpread(job,
        [status |-> sg.suggestedStatus,
         statusHistory |->
            Append(ArrayOr(job, "statusHistory", <<>>),
                   [id |-> <<"status", now>>, status |-> sg.suggestedStatus,
                    date |-> now, notes |-> <<"Auto-updated", sg.reason>>])])

\* autoProgressStatus(job, suggestions): <<>> for null
autoProgressStatus(job, suggestions, now) ==
    IF \E k \in 1..Len(suggestions) : Applicable(job, suggestions[k])
    THEN <<Progressed(job,
                      suggestions[CHOOSE k \in 1..Len(suggestions) :
                          /\ Applicable(job, suggestions[k])
                          /\ \A m \in 1..(k - 1) :
                                ~Applicable(job, suggestions[m])],
                      now)>>
    ELSE <<>>

\* autoProgressStatus(jobs[i], suggestions) on the suggestions analyzeJobs
\* returned for the list
AutoProgressStatus(i) ==
    /\ call.name = "analyzeJobs"
    /\ result2' = autoProgressStatus(jobs[i], result, call.now)
    /\ call' = [name |-> "autoProgressStatus", job |-> i, now |-> call.now]
    /\ UNCHANGED <<jobs, searchTerm, searchIndex, filters, sort, result, op,
                   storage, documents, clock, services>>

\* The instant at which the changed rule sets are tried: 2024-02-09, when
\* every record of TrackedPool is past the delay of its default rule
RuleInstants == {19762 * DayLength}

RulesNext ==
    \/ \E ruleData \in RuleData : CreateRule(ruleData)
    \/ \E id \in RuleIds, updates \in RuleUpdates : UpdateRule(id, updates)
    \/ \E id \in RuleIds : DeleteRule(id)
    \/ \E now \in RuleInstants : AnalyzeJobs(now)
    \/ \E i \in 1..Len(jobs) : AutoProgressStatus(i)

SpecRules == AutomationInit /\ [][RulesNext]_vars

\* C21: no status transition is ever applied automatically: for every rule
\* set (default or made through createRule / updateRule) and every record
\* list, no suggestion of analyzeJobs has autoApply = true, so
\* autoProgressStatus(job, analyzeJobs(jobs)) returns null for every job.
C21_NothingIsAppliedAutomatically ==
    /\ call.name \in {"analyzeJobs", "autoProgressStatus"} =>
          \A k \in 1..Len(result) : result[k].autoApply = FALSE
    /\ call.name = "autoProgressStatus" => result2 = <<>>

\* A rule made by createRule that names another status has produced a
\* suggestion of confidence 0.9 for a record, and autoProgressStatus was
\* called for that record.
C21_Witness ==
    /\ call.name = "autoProgressStatus"
    /\ Len(statusRules) > Len(DefaultRules)
    /\ \E k \in 1..Len(result) :
          /\ result[k].jobId = jobs[call.job].id
          /\ result[k].suggestedStatus # result[k].currentStatus
          /\ IsNineTenths(result[k].confidence)
    /\ result2 = <<>>

-----------------------------------------------------------------------------
(* The tracker's handlers (src/components/JobTracker.tsx)                  *)
(*                                                                         *)
(* `jobs` is the tracker's in-memory list (useState), `storage` the stored *)
(* collection.  A file is the value its JSON text parses to: the records   *)
(* hold strings, numbers, booleans and arrays only, which JSON.stringify   *)
(* and JSON.parse give back as they were.                                  *)

\* What the add dialog hands to handleAddJob: the form with either status
DialogApplications ==
    {TypedApplication,
     ObjectSpread(TypedApplication, [status |-> Interview, priority |-> High])}

\* What a card (the next status) and the edit dialog (the form, here with
\* the status kept or changed) hand to handleUpdateJob
TrackerUpdates ==
    {[status |-> Interview], [status |-> Rejected],
     [status |-> Applied, priority |-> High]}

\* The ids of the records the tracker shows
ShownIds == {jobs[i].id : i \in 1..Len(jobs)}

\* handleAddJob(jobData)
HandleAddJob(application) ==
    /\ clock < MaxTicks
    /\ Len(storage) < MaxStored
    /\ clock' = clock + 1
    /\ storage' = Append(getAll(storage, clock + 1),
                         NewApplication(application, clock + 1))
    /\ jobs' = Append(jobs, NewApplication(application, clock + 1))
    /\ call' = [name |-> "handleAddJob", application |-> application]
    /\ UNCHANGED <<searchTerm, searchIndex, filters, sort, result, result2,
                   op, documents, services>>

\* prev.map((job) => (job.id === id ? {...job, ...updates} : job))
MapUpdates(prev, id, updates) ==
    [i \in 1..Len(prev) |->
        IF prev[i].id = id THEN ObjectSpread(prev[i], updates) ELSE prev[i]]

\* handleUpdateJob(id, updates)
HandleUpdateJob(id, updates) ==
    /\ clock < MaxTicks
    /\ clock' = clock + 1
    /\ storage' = update(id, updates, clock + 1)
    /\ jobs' = MapUpdates(jobs, id, updates)
    /\ call' = [name |-> "handleUpdateJob", id |-> id, updates |-> updates]
    /\ UNCHANGED <<searchTerm, searchIndex, filters, sort, result, result2,
                   op, documents, services>>

\* confirmDeleteJob() with jobToDelete, a record of the list shown
ConfirmDeleteJob(id) ==
    /\ clock < MaxTicks
    /\ clock' = clock + 1
    /\ storage' = WithoutId(getAll(storage, clock + 1), id)
    /\ jobs' = WithoutId(jobs, id)
    /\ call' = [name |-> "confirmDeleteJob", id |-> id]
    /\ UNCHANGED <<searchTerm, searchIndex, filters, sort, result, result2,
                   op, documents, services>>

\* !job.archived
NotArchived(job) == ~BoolOr(job, "archived")

\* DataExportService.exportJobs(list, options) up to the switch: the filter
\* on archived unless options.includeArchived; no dateRange is passed.
ExportedJobs(list, includeArchived) ==
    IF includeArchived THEN list ELSE SelectSeq(list, NotArchived)

\* DataExportService.exportToJSON(list), parsed
exportToJSON(list, tick) ==
    [exportDate |-> tick, version |-> "1.0", jobs |-> list]

\* handleExportJSON(): exportJobs(jobs, {format: "json"})
HandleExportJSON ==
    /\ clock < MaxTicks
    /\ clock' = clock + 1
    /\ exportFile' = <<exportToJSON(ExportedJobs(jobs, FALSE), clock + 1)>>
    /\ call' = [name |-> "handleExportJSON"]
    /\ UNCHANGED <<jobs, searchTerm, searchIndex, filters, sort, result,
                   result2, op, storage, documents, statusRules, others>>

\* const {id, ...jobWithoutId} = job
WithoutIdKey(job) == [k \in DOMAIN job \ {"id"} |-> job[k]]

\* importedJobs.forEach((job) => jobStorage.add(jobWithoutId)): the store
\* after the adds, the n-th of them at time tick + n
RECURSIVE AddEach(_, _, _)
AddEach(stored, imported, tick) ==
    IF Len(imported) = 0 THEN stored
    ELSE AddEach(Append(getAll(stored, tick + 1),
                        NewApplication(WithoutIdKey(imported[1]), tick + 1)),
                 Tail(imported), tick + 1)

\* handleImportData(event) with the exported file chosen
HandleImportData ==
    /\ Len(exportFile) = 1
    /\ Len(exportFile[1].jobs) > 0
    /\ clock + Len(exportFile[1].jobs) <= MaxTicks
    /\ Len(storage) + Len(exportFile[1].jobs) <= MaxStored
    /\ clock' = clock + Len(exportFile[1].jobs)
    /\ storage' = AddEach(storage, exportFile[1].jobs, clock)
    /\ jobs' = getAll(storage', clock')
    /\ call' = [name |-> "handleImportData", file |-> exportFile[1]]
    /\ UNCHANGED <<searchTerm, searchIndex, filters, sort, result, result2,
                   op, documents, services>>

TrackerNext ==
    \/ \E application \in DialogApplications : HandleAddJob(application)
    \/ \E id \in ShownIds, updates \in TrackerUpdates :
          HandleUpdateJob(id, updates)
    \/ \E id \in ShownIds : ConfirmDeleteJob(id)
    \/ HandleExportJSON
    \/ HandleImportData

SpecTracker == StorageInit /\ [][TrackerNext]_vars

\* What the claim compares of a collection: id, status history and archived
\* flag of every record
Essentials(list) ==
    [i \in 1..Len(list) |->
        [id |-> list[i].id, statusHistory |-> list[i].statusHistory,
         archived |-> list[i].archived]]

\* C22: exporting the job collection to JSON from the tracker and importing
\* that file back through the tracker's import gives the collection as it
\* was before the export: the same records with the same ids, status
\* histories and archived flags, none lost or duplicated.
C22_JsonExportImportRoundTrips ==
    [][(call.name = "handleExportJSON" /\ call'.name = "handleImportData") =>
          Essentials(storage') = Essentials(storage)]_vars

\* C25: after any sequence of adds, updates (status changes included) and
\* confirmed deletes through the tracker's handlers, the in-memory list
\* equals what jobStorage.getAll() returns: the same records with the same
\* ids, field values and status histories.
C25_ListEqualsStoredCollection ==
    call.name \in {"handleAddJob", "handleUpdateJob", "confirmDeleteJob"} =>
        jobs = getAll(storage, clock)

-----------------------------------------------------------------------------
(* The two searches compared                                               *)

\* A query of one token: split at white space, one part is not empty
SingleToken(query) ==
    Len(SelectSeq(IndexTerms(query), LAMBDA t : Len(t) > 0)) = 1

\* C23: substring search subsumes prefix search: for every record list and
\* every query of one token, every record that searchWithIndex returns
\* through the index built from the list is returned by searchJobs too.
C23_IndexSearchWithinLinearSearch ==
    (op = "searchWithIndex" /\ SingleToken(searchTerm)
        /\ searchIndex = createSearchIndex(jobs)) =>
        Range(result) \subseteq Range(searchJobs(jobs, searchTerm))

\* C23's case: a token that starts a word of one record and lies inside a
\* word of another: the index search returns the first, searchJobs both.
C23_Witness ==
    /\ op = "searchWithIndex"
    /\ SingleToken(searchTerm)
    /\ searchIndex = createSearchIndex(jobs)
    /\ Len(result) = 1
    /\ Len(searchJobs(jobs, searchTerm)) = 2

-----------------------------------------------------------------------------
(* PerformanceService.createMemoizedFilter, made for filterJobs            *)
(*                                                                         *)
(* The cache is a Map: its entries in insertion order, [key, value].  A    *)
(* key is the text of {itemsLength, filters}, here the record itself.      *)

MAX_CACHE_SIZE == 50

\* The number of calls followed
MaxMemoCalls == 2

\* The records and the filters the calls are made with
MemoPool == {JobA, JobB, JobC}

MemoFilters ==
    {EmptyFilter, [EmptyFilter EXCEPT !.status = Applied],
     [EmptyFilter EXCEPT !.status = Interview]}

\* JSON.stringify({itemsLength: items.length, filters})
CacheKey(items, f) == [itemsLength |-> Len(items), filters |-> f]

\* cache.has(cacheKey)
CacheHas(cache, key) == \E i \in 1..Len(cache) : cache[i].key = key

\* cache.get(cacheKey)
CacheGet(cache, key) ==
    cache[CHOOSE i \in 1..Len(cache) : cache[i].key = key].value

\* The cache after a miss: the first key deleted at the limit, then set
CacheSet(cache, key, value) ==
    (IF Len(cache) >= MAX_CACHE_SIZE THEN Tail(cache) ELSE cache)
        \o <<[key |-> key, value |-> value]>>

\* One call of the memoized function
MemoizedFilter(items, f) ==
    /\ clock < MaxMemoCalls
    /\ clock' = clock + 1
    /\ jobs' = items
    /\ filters' = f
    /\ IF CacheHas(memoCache, CacheKey(items, f))
       THEN /\ result' = CacheGet(memoCache, CacheKey(items, f))
            /\ UNCHANGED memoCache
       ELSE /\ result' = filterJobs(items, f)
            /\ memoCache' = CacheSet(memoCache, CacheKey(items, f),
                                     filterJobs(items, f))
    /\ call' = [name |-> "memoizedFilter"]
    /\ UNCHANGED <<searchTerm, searchIndex, sort, result2, op, storage,
                   documents, statusRules, exportFile, templating, notifying, loader, inFlight,
                   timeoutId, promises>>

MemoNext ==
    \E items \in RecordLists(MemoPool, MaxJobs), f \in MemoFilters :
        MemoizedFilter(items, f)

SpecMemo == StorageInit /\ [][MemoNext]_vars

\* C24: every call of a function made by createMemoizedFilter returns what
\* the underlying filter function returns for that call's items and
\* filters; a cached result is never returned for another item list.
C24_MemoizedFilterReturnsFilterResult ==
    call.name = "memoizedFilter" => result = filterJobs(jobs, filters)

-----------------------------------------------------------------------------
(* PerformanceService.createLazyLoader                                     *)
(*                                                                         *)
(* loadFunction serves a list of TotalItems items, the numbers from 0, in  *)
(* pages of PageSize.  A call of it is in flight from the call in loadMore *)
(* until its promise is fulfilled; calls in flight are fulfilled in any    *)
(* order.                                                                  *)

PageSize == 2
TotalItems == 5

\* The number of loadMore and reset calls followed
MaxLoaderCalls == 6

\* Array.prototype.slice(from, to) of the numbers 0 .. TotalItems - 1
Slice(from, to) ==
    [k \in 1..((IF to < TotalItems THEN to ELSE TotalItems) - from) |->
        from + k - 1]

\* loadFunction(page, pageSize)
Page(page) ==
    IF page * PageSize >= TotalItems THEN <<>>
    ELSE Slice(page * PageSize, (page + 1) * PageSize)

\* loadMore(), up to the await
LoadMore ==
    /\ clock < MaxLoaderCalls
    /\ clock' = clock + 1
    /\ IF loader.isLoading \/ ~loader.hasMore
       THEN UNCHANGED <<loader, inFlight>>
       ELSE /\ loader' = [loader EXCEPT !.isLoading = TRUE]
            /\ inFlight' = inFlight \cup
                   {[page |-> loader.currentPage, started |-> clock + 1]}
    /\ call' = [name |-> "loadMore"]
    /\ UNCHANGED <<jobs, searchTerm, searchIndex, filters, sort, result,
                   result2, op, storage, documents, statusRules, exportFile, templating, notifying,
                   memoCache, timeoutId, promises>>

\* loadMore() from the await on, for one call in flight
LoadSettled(load) ==
    /\ load \in inFlight
    /\ inFlight' = inFlight \ {load}
    /\ loader' =
          [currentPage |-> loader.currentPage + 1,
           hasMore |-> IF Len(Page(load.page)) < PageSize THEN FALSE
                       ELSE loader.hasMore,
           isLoading |-> FALSE,
           allItems |-> loader.allItems \o Page(load.page)]
    /\ call' = [name |-> "loadSettled"]
    /\ UNCHANGED <<jobs, searchTerm, searchIndex, filters, sort, result,
                   result2, op, storage, documents, clock, statusRules,
                   exportFile, templating, notifying, memoCache, timeoutId, promises>>

\* reset()
Reset ==
    /\ clock < MaxLoaderCalls
    /\ clock' = clock + 1
    /\ loader' = [currentPage |-> 0, hasMore |-> TRUE, isLoading |-> FALSE,
                  allItems |-> <<>>]
    /\ call' = [name |-> "reset"]
    /\ UNCHANGED <<jobs, searchTerm, searchIndex, filters, sort, result,
                   result2, op, storage, documents, statusRules, exportFile, templating, notifying,
                   memoCache, inFlight, timeoutId, promises>>

LoaderNext ==
    \/ LoadMore
    \/ \E load \in inFlight : LoadSettled(load)
    \/ Reset

SpecLoader == StorageInit /\ [][LoaderNext]_vars

\* Pages 0 .. n - 1 one after the other
RECURSIVE PagesBefore(_)
PagesBefore(n) == IF n = 0 THEN <<>> ELSE PagesBefore(n - 1) \o Page(n - 1)

\* C26: under every interleaving of loadMore and reset, calls made while a
\* load is in flight included, the accumulated items are the pages
\* 0 .. currentPage - 1 one after the other: no page twice, none skipped.
C26_ItemsArePagesInOrder ==
    loader.allItems = PagesBefore(loader.currentPage)

-----------------------------------------------------------------------------
(* PerformanceService.createDebouncedSearch, made for searchJobs           *)
(*                                                                         *)
(* A promise is the record of its call, whether it is resolved, and its    *)
(* value.  timeoutId names the promise whose callback the pending timeout  *)
(* runs; a timeout that was cleared never runs.                            *)

\* The number of calls followed
MaxDebounceCalls == 3

\* The queries and the item lists the calls are made with
DebounceQueries == {<<"e">>, <<"n", "g">>, <<"z">>}

DebounceItems == {<<JobA>>, <<JobA, JobB>>}

\* The returned function: clearTimeout(timeoutId), then setTimeout
DebouncedSearch(query, items) ==
    /\ Len(promises) < MaxDebounceCalls
    /\ promises' = Append(promises,
                          [query |-> query, items |-> items,
                           resolved |-> FALSE, value |-> <<>>])
    /\ timeoutId' = <<Len(promises) + 1>>
    /\ call' = [name |-> "debouncedSearch"]
    /\ UNCHANGED <<jobs, searchTerm, searchIndex, filters, sort, result,
                   result2, op, storage, documents, clock, statusRules,
                   exportFile, templating, notifying, memoCache, loader, inFlight>>

\* The callback of the pending timeout, once the delay has elapsed
TimeoutFires ==
    /\ Len(timeoutId) = 1
    /\ LET own == promises[timeoutId[1]]
       IN  promises' =
              [promises EXCEPT ![timeoutId[1]] =
                  [query |-> own.query, items |-> own.items,
                   resolved |-> TRUE,
                   value |-> searchJobs(own.items, own.query)]]
    /\ timeoutId' = <<>>
    /\ call' = [name |-> "timeout"]
    /\ UNCHANGED <<jobs, searchTerm, searchIndex, filters, sort, result,
                   result2, op, storage, documents, clock, statusRules,
                   exportFile, templating, notifying, memoCache, loader, inFlight>>

DebounceNext ==
    \/ \E query \in DebounceQueries, items \in DebounceItems :
          DebouncedSearch(query, items)
    \/ TimeoutFires

SpecDebounce == StorageInit /\ [][DebounceNext]_vars

\* A timeout that is not cleared runs its callback
SpecDebounceFair == SpecDebounce /\ WF_vars(TimeoutFires)

\* The n-th promise is resolved with the result for its own call
ResolvedWithOwnResult(n) ==
    /\ Len(promises) >= n
    /\ promises[n].resolved
    /\ promises[n].value = searchJobs(promises[n].items, promises[n].query)

\* C27: every promise the debounced search returns is eventually resolved
\* with the search result for its own query and items, also when another
\* call arrives before the delay has elapsed.
C27_EveryPromiseResolves ==
    \A n \in 1..MaxDebounceCalls :
        (Len(promises) >= n) ~> ResolvedWithOwnResult(n)

-----------------------------------------------------------------------------
(* ApplicationTemplateService (templates and their categories)             *)

\* The number of template service calls followed
MaxTemplateOps == 3

CategoryIds == {categories[i].id : i \in 1..Len(categories)}

TemplateIds == {templates[i].id : i \in 1..Len(templates)}

\* createCategory(categoryData): the id is "category-" and the time
CreateCategory ==
    /\ clock < MaxTemplateOps
    /\ clock' = clock + 1
    /\ categories' =
          Append(categories, [id |-> "category-" \o ToString(clock + 1)])
    /\ call' = [name |-> "createCategory"]
    /\ UNCHANGED <<jobs, searchTerm, searchIndex, filters, sort, result,
                   result2, op, storage, documents, statusRules, exportFile,
                   performance, templates, notifying>>

\* createTemplate(templateData) with a category of the list shown
CreateTemplate(category) ==
    /\ clock < MaxTemplateOps
    /\ clock' = clock + 1
    /\ templates' =
          Append(templates, [id |-> "template-" \o ToString(clock + 1),
                             category |-> category, isDefault |-> FALSE])
    /\ call' = [name |-> "createTemplate"]
    /\ UNCHANGED <<jobs, searchTerm, searchIndex, filters, sort, result,
                   result2, op, storage, documents, statusRules, exportFile,
                   performance, categories, notifying>>

\* deleteTemplate(id): default templates are kept
DeleteTemplate(id) ==
    /\ clock < MaxTemplateOps
    /\ clock' = clock + 1
    /\ templates' =
          SelectSeq(templates, LAMBDA t : t.id # id \/ t.isDefault)
    /\ call' = [name |-> "deleteTemplate"]
    /\ UNCHANGED <<jobs, searchTerm, searchIndex, filters, sort, result,
                   result2, op, storage, documents, statusRules, exportFile,
                   performance, categories, notifying>>

\* this.templates.forEach: a template of the category goes to 'tech'
MovedToTech(list, id) ==
    [i \in 1..Len(list) |->
        IF list[i].category = id THEN [list[i] EXCEPT !.category = "tech"]
        ELSE list[i]]

\* deleteCategory(id)
DeleteCategory(id) ==
    /\ clock < MaxTemplateOps
    /\ clock' = clock + 1
    /\ IF id \notin CategoryIds
       THEN UNCHANGED <<templates, categories>>
       ELSE /\ templates' = MovedToTech(templates, id)
            /\ categories' = SelectSeq(categories, LAMBDA c : c.id # id)
    /\ call' = [name |-> "deleteCategory", id |-> id,
                returned |-> id \in CategoryIds]
    /\ UNCHANGED <<jobs, searchTerm, searchIndex, filters, sort, result,
                   result2, op, storage, documents, statusRules, exportFile,
                   performance, notifying>>

TemplatesNext ==
    \/ CreateCategory
    \/ \E category \in CategoryIds : CreateTemplate(category)
    \/ \E id \in TemplateIds : DeleteTemplate(id)
    \/ \E id \in CategoryIds \cup {"category-0"} : DeleteCategory(id)

SpecTemplates == StorageInit /\ [][TemplatesNext]_vars

\* Every template's category is the id of a category of the list
Categorised(list, cats) ==
    \A i \in 1..Len(list) : \E j \in 1..Len(cats) : list[i].category = cats[j].id

\* C28: deleteCategory(id), called in a state where every template's
\* category is the id of an existing category, leaves a state with the
\* same property, for every id, 'tech' included.
C28_DeleteCategoryKeepsTemplatesCategorised ==
    [][(call'.name = "deleteCategory" /\ Categorised(templates, categories))
          => Categorised(templates', categories')]_vars

-----------------------------------------------------------------------------
(* jobStorage.importData                                                   *)
(*                                                                         *)
(* A text is its characters, or the text exportData writes for a list of   *)
(* records: [chars, applications], `chars` being "exportData" for the      *)
(* latter.  A parsed value is [type, fields, items]: the fields of an      *)
(* object, the items of an array or the characters of a string.            *)

JsonValue(type, fields, items) ==
    [threw |-> FALSE, type |-> type, fields |-> fields, items |-> items]

NoFields == [k \in {} |-> <<>>]

\* An object with the one key "applications"
WithApplications(value) == JsonValue("object", [applications |-> value], <<>>)

\* JSON.parse(jsonData) for the texts followed; a text that is not JSON
\* throws a SyntaxError
JsonParse(text) ==
    CASE text.chars = "exportData" ->
            JsonValue("object",
                      [version |-> JsonValue("string", NoFields, <<"1", ".", "0">>),
                       applications |-> JsonValue("array", NoFields,
                                                  text.applications)],
                      <<>>)
      [] text.chars = "null" -> JsonValue("null", NoFields, <<>>)
      [] text.chars = "5" -> JsonValue("number", NoFields, <<>>)
      [] text.chars = "[]" -> JsonValue("array", NoFields, <<>>)
      [] text.chars = "{}" -> JsonValue("object", NoFields, <<>>)
      [] text.chars = "{\"applications\":null}" ->
            WithApplications(JsonValue("null", NoFields, <<>>))
      [] text.chars = "{\"applications\":\"x\"}" ->
            WithApplications(JsonValue("string", NoFields, <<"x">>))
      [] text.chars = "{\"applications\":{}}" ->
            WithApplications(JsonValue("object", NoFields, <<>>))
      [] text.chars = "{\"applications\":[]}" ->
            WithApplications(JsonValue("array", NoFields, <<>>))
      [] OTHER -> [threw |-> TRUE, type |-> "SyntaxError",
                   fields |-> NoFields, items |-> <<>>]

\* The texts importData is given
Literal(chars) == [chars |-> chars, applications |-> <<>>]

ImportTexts ==
    {Literal(""), Literal("{applications"), Literal("null"), Literal("5"),
     Literal("[]"), Literal("{}"), Literal("{\"applications\":null}"),
     Literal("{\"applications\":\"x\"}"), Literal("{\"applications\":{}}"),
     Literal("{\"applications\":[]}"),
     [chars |-> "exportData",
      applications |-> <<NewApplication(TypedApplication, 1)>>],
     [chars |-> "exportData",
      applications |-> <<ObjectSpread(CsvApplication, [id |-> 2])>>]}

\* !data.applications: the key is absent, or its value is null or ""
FalsyApplications(data) ==
    \/ "applications" \notin DOMAIN data.fields
    \/ data.fields.applications.type = "null"
    \/ (data.fields.applications.type = "string"
           /\ data.fields.applications.items = <<>>)

\* What importData returns without saving
Failed(stored, message) ==
    [storage |-> stored,
     returned |-> [success |-> FALSE, message |-> message, imported |-> 0]]

\* Faulty variant of importData: a value without an applications array is
\* read as an empty list of applications.
importDataDefaultingToEmpty(stored, text, tick) ==
    LET data == JsonParse(text)
        found == ~data.threw /\ data.type # "null" /\ ~FalsyApplications(data)
                    /\ data.fields.applications.type = "array"
        migratedApps ==
            IF found
            THEN [i \in 1..Len(data.fields.applications.items) |->
                     migrateJobApplication(data.fields.applications.items[i],
                                           RandomUUID(tick, i))]
            ELSE <<>>
    IN  [storage |-> migratedApps,
         returned |-> [success |-> TRUE,
                       message |-> "Data imported successfully",
                       imported |-> Len(migratedApps)]]

\* jobStorage.importData(jsonData): the store it leaves and what it
\* returns.  JSON.parse throwing, and data.applications read of null
\* throwing a TypeError, end in the catch.
importData(stored, text, tick) ==
    LET data == JsonParse(text)
    IN  IF data.threw \/ data.type = "null"
        THEN Failed(stored, "Failed to parse import data")
        ELSE IF FalsyApplications(data)
                   \/ data.fields.applications.type # "array"
        THEN Failed(stored, "Invalid data format")
        ELSE LET migratedApps ==
                     [i \in 1..Len(data.fields.applications.items) |->
                         migrateJobApplication(
                             data.fields.applications.items[i],
                             RandomUUID(tick, i))]
             IN  [storage |-> migratedApps,
                  returned |-> [success |-> TRUE,
                                message |-> "Data imported successfully",
                                imported |-> Len(migratedApps)]]

ImportData(text) ==
    /\ clock < MaxTicks
    /\ clock' = clock + 1
    /\ LET done == importData(storage, text, clock + 1)
       IN  /\ storage' = done.storage
           /\ call' = [name |-> "importData", text |-> text,
                       returned |-> done.returned]
    /\ UNCHANGED <<jobs, searchTerm, searchIndex, filters, sort, result,
                   result2, op, documents, services>>

ImportNext ==
    \/ \E application \in Applications : Add(application)
    \/ \E text \in ImportTexts : ImportData(text)

SpecImport == StorageInit /\ [][ImportNext]_vars

\* The text is not JSON, or is JSON without an array under "applications"
Malformed(text) ==
    LET data == JsonParse(text)
    IN  \/ data.threw
        \/ data.type # "object"
        \/ "applications" \notin DOMAIN data.fields
        \/ data.fields.applications.type # "array"

\* C29: importData given text that is not valid JSON, or JSON without an
\* 'applications' array, returns success = false with imported = 0 and
\* leaves the stored collection unchanged.
C29_MalformedImportLeavesStore ==
    [][(call'.name = "importData" /\ Malformed(call'.text)) =>
          /\ call'.returned.success = FALSE
          /\ call'.returned.imported = 0
          /\ storage' = storage]_vars

\* C29's case: the text "null", which parses and then throws on the read
\* of data.applications, is refused with records in the store.
C29_Witness ==
    /\ call.name = "importData"
    /\ call.text = Literal("null")
    /\ call.returned.success = FALSE
    /\ Len(storage) = MaxStored

-----------------------------------------------------------------------------
(* NotificationService                                                     *)
(*                                                                         *)
(* Time is the clock, in ticks.  `shown` lists the browser notifications   *)
(* constructed (new Notification), each with the time and the permission   *)
(* at its construction.  The settings are the default ones (all enabled).  *)

\* settings.reminderDays, in ticks
ReminderDelay == 1

\* The time followed, and the number of notifications created
MaxNotifyTicks == 2
MaxCreated == 2

\* createNotification(type, title, message, jobId, scheduledFor); the id is
\* unique (time and random suffix), here the count of the created
createNotification(type, scheduledFor, n) ==
    [id |-> n, type |-> type, scheduledFor |-> scheduledFor,
     isRead |-> FALSE, isSent |-> FALSE]

\* this.notifications.findIndex((n) => n.id === id), 0 for -1
FindNotification(list, id) ==
    IF \E i \in 1..Len(list) : list[i].id = id
    THEN CHOOSE i \in 1..Len(list) :
            list[i].id = id /\ \A j \in 1..(i - 1) : list[j].id # id
    ELSE 0

\* Faulty variant of sendBrowserNotification: the notification is shown
\* and not marked as sent.
sendWithoutMarking(state, notification, granted, now) ==
    IF granted # "granted" THEN state
    ELSE [notifications |-> state.notifications,
          shown |-> Append(state.shown,
                           [id |-> notification.id, type |-> notification.type,
                            scheduledFor |-> notification.scheduledFor,
                            at |-> now, permission |-> granted])]

\* sendBrowserNotification(notification) with Notification.permission
\* `granted` at time `now`: the notifications and the shown list it leaves
sendBrowserNotification(state, notification, granted, now) ==
    IF granted # "granted" THEN state
    ELSE LET index == FindNotification(state.notifications, notification.id)
         IN  [notifications |->
                  IF index # 0
                  THEN [state.notifications EXCEPT ![index].isSent = TRUE]
                  ELSE state.notifications,
              shown |-> Append(state.shown,
                               [id |-> notification.id,
                                type |-> notification.type,
                                scheduledFor |-> notification.scheduledFor,
                                at |-> now, permission |-> granted])]

\* pendingNotifications.forEach(sendBrowserNotification)
RECURSIVE SendEach(_, _, _, _)
SendEach(state, pending, granted, now) ==
    IF Len(pending) = 0 THEN state
    ELSE SendEach(sendBrowserNotification(state, pending[1], granted, now),
                  Tail(pending), granted, now)

\* scheduleFollowUpReminder(job)
ScheduleFollowUpReminder ==
    /\ created < MaxCreated
    /\ created' = created + 1
    /\ notifications' =
          Append(notifications,
                 createNotification("follow-up", clock + ReminderDelay,
                                    created + 1))
    /\ call' = [name |-> "scheduleFollowUpReminder"]
    /\ UNCHANGED <<jobs, searchTerm, searchIndex, filters, sort, result,
                   result2, op, storage, documents, clock, statusRules,
                   exportFile, performance, templating, permission, shown>>

\* notifyStatusUpdate(job, oldStatus, newStatus)
NotifyStatusUpdate ==
    /\ created < MaxCreated
    /\ created' = created + 1
    /\ LET notification ==
               createNotification("status-update", clock, created + 1)
           sent == sendBrowserNotification(
                       [notifications |-> Append(notifications, notification),
                        shown |-> shown],
                       notification, permission, clock)
       IN  /\ notifications' = sent.notifications
           /\ shown' = sent.shown
    /\ call' = [name |-> "notifyStatusUpdate"]
    /\ UNCHANGED <<jobs, searchTerm, searchIndex, filters, sort, result,
                   result2, op, storage, documents, clock, statusRules,
                   exportFile, performance, templating, permission>>

\* checkPendingNotifications(), run by the interval
CheckPendingNotifications ==
    /\ LET pending ==
               SelectSeq(notifications,
                         LAMBDA n : ~n.isSent /\ n.scheduledFor <= clock)
           sent == SendEach([notifications |-> notifications,
                             shown |-> shown],
                            pending, permission, clock)
       IN  /\ notifications' = sent.notifications
           /\ shown' = sent.shown
    /\ call' = [name |-> "checkPendingNotifications"]
    /\ UNCHANGED <<jobs, searchTerm, searchIndex, filters, sort, result,
                   result2, op, storage, documents, clock, statusRules,
                   exportFile, performance, templating, permission, created>>

\* markAsRead(id), also run by a click on the browser notification
MarkAsRead(id) ==
    /\ notifications' =
          IF FindNotification(notifications, id) # 0
          THEN [notifications EXCEPT
                   ![FindNotification(notifications, id)].isRead = TRUE]
          ELSE notifications
    /\ call' = [name |-> "markAsRead"]
    /\ UNCHANGED <<jobs, searchTerm, searchIndex, filters, sort, result,
                   result2, op, storage, documents, clock, statusRules,
                   exportFile, performance, templating, permission, shown,
                   created>>

\* deleteNotification(id)
DeleteNotification(id) ==
    /\ notifications' = SelectSeq(notifications, LAMBDA n : n.id # id)
    /\ call' = [name |-> "deleteNotification"]
    /\ UNCHANGED <<jobs, searchTerm, searchIndex, filters, sort, result,
                   result2, op, storage, documents, clock, statusRules,
                   exportFile, performance, templating, permission, shown,
                   created>>

\* The user grants, denies or withdraws the permission in the browser
PermissionChanges(granted) ==
    /\ permission # granted
    /\ permission' = granted
    /\ call' = [name |-> "permission"]
    /\ UNCHANGED <<jobs, searchTerm, searchIndex, filters, sort, result,
                   result2, op, storage, documents, clock, statusRules,
                   exportFile, performance, templating, notifications, shown,
                   created>>

\* Time passes
Tick ==
    /\ clock < MaxNotifyTicks
    /\ clock' = clock + 1
    /\ call' = [name |-> "tick"]
    /\ UNCHANGED <<jobs, searchTerm, searchIndex, filters, sort, result,
                   result2, op, storage, documents, services>>

NotificationIds == {notifications[i].id : i \in 1..Len(notifications)}

NotifyNext ==
    \/ ScheduleFollowUpReminder
    \/ NotifyStatusUpdate
    \/ CheckPendingNotifications
    \/ \E id \in NotificationIds : MarkAsRead(id)
    \/ \E id \in NotificationIds : DeleteNotification(id)
    \/ \E granted \in {"default", "granted", "denied"} :
          PermissionChanges(granted)
    \/ Tick

SpecNotify == StorageInit /\ [][NotifyNext]_vars

\* No notification was shown twice
ShownAtMostOnce ==
    \A i, j \in 1..Len(shown) : shown[i].id = shown[j].id => i = j

\* Every notification shown was due and was shown with permission granted
ShownWhenDueAndGranted ==
    \A i \in 1..Len(shown) :
        shown[i].scheduledFor <= shown[i].at /\ shown[i].permission = "granted"

\* A notification that is sent and is kept stays sent
SentStaysSent ==
    \A i \in 1..Len(notifications), j \in 1..Len(notifications') :
        (notifications[i].id = notifications'[j].id
            /\ notifications[i].isSent) => notifications'[j].isSent

\* C30: across periodic checks, status-update notifications, mark-as-read
\* and delete, a notification is shown as a browser notification at most
\* once, only when its scheduled time has passed and while the permission
\* is granted, and its isSent flag never returns from true to false.
C30_ShownOnceWhenDueAndSentStays ==
    /\ [](ShownAtMostOnce /\ ShownWhenDueAndGranted)
    /\ [][SentStaysSent]_vars

\* C30's case: a follow-up reminder shown by a periodic check once due, a
\* notification sent and read, and the permission no longer granted.
C30_Witness ==
    /\ \E i \in 1..Len(shown) : shown[i].type = "follow-up"
    /\ \E i \in 1..Len(shown) : shown[i].type = "status-update"
    /\ \E i \in 1..Len(notifications) :
          notifications[i].isSent /\ notifications[i].isRead
    /\ permission = "denied"

=============================================================================
